---- MODULE Spec2Model ----
(***************************************************************************)
(* The event delivery pipeline of the Dashgram JavaScript SDK:             *)
(*   EventQueue      (core/event-queue)       bounded FIFO, drop-oldest    *)
(*   BatchProcessor  (transport/batch-processor) the flush scheduler       *)
(*   Transport       (transport/transport)    send / sendBeacon / flush    *)
(* The host is single-threaded: every action below is one task of the      *)
(* event loop together with the microtasks (promise reactions) it queues.  *)
(***************************************************************************)
EXTENDS Integers, Sequences, FiniteSets, TLC

(* ------------------------------ bounds --------------------------------- *)
\* SchedulerSpec, LifecycleSpec, TimerSpec, SdkSpec: number of addEvent
\* (track) calls explored (events are numbered in call order)
MaxEvents == 3
\* Spec: number of addEvent calls explored
MaxNetEvents == 2
\* number of flushAsync calls explored
MaxFlushAsync == 1
\* SchedulerSpec, LifecycleSpec, TimerSpec: number of times start() registers
\* its page-lifecycle listeners
MaxHandlers == 2
\* Spec: the same
MaxNetHandlers == 1
\* QueueSpec: number of enqueue calls since the queue was last emptied
MaxHist == 4
\* TransportSpec: number of direct transport calls explored
MaxDirect == 3

\* capacities handed to the EventQueue constructor (SchedulerSpec; the
\* BatchProcessor itself hands over 200)
Capacities == {1, 2}
\* QueueSpec: the same, up to the capacity of the documented scenario
QueueCapacities == {1, 2, 3}
\* batch-size thresholds explored: below, at and above the capacity
BatchSizes == {1, 2, 3}
\* records offered to a bare EventQueue (QueueSpec)
Records == {1, 2}
\* batches handed to the transport directly (TransportSpec)
DirectBatches == {<< >>, <<1>>}
\* the elements clicked (ClickSpec)
Elements == {"button", "link"}
\* ClickSpec: the clock stops at MaxNow milliseconds, advancing by one of Ticks
MaxNow == 5000
Ticks == {1000, 2000}
\* SessionSpec: at most MaxSessionTicks advances of the clock, and at most
\* MaxSessions sessions
MaxSessionTicks == 3
MaxSessions == 4
\* RequestSpec: the statuses of the responses to one request: success,
\* redirection, forbidden, other client and server errors
Statuses == {200, 204, 299, 304, 403, 404, 500}

VARIABLES
    \* Config (core/config): immutable after construction
    batchSize,        \* config.get('batchSize')
    disabled,         \* config.isDisabled()
    onError,          \* TRUE iff config.getOnError() is a function
    \* host capability
    hasBeacon,        \* navigator.sendBeacon exists
    \* EventQueue
    queue,            \* EventQueue.queue
    maxSize,          \* EventQueue.maxSize
    \* BatchProcessor
    isStarted,        \* BatchProcessor.isStarted
    flushTimer,       \* BatchProcessor.flushTimer: 0 is null, -1 the id of a timer
                      \* that has fired, else the id of an armed timer
    timers,           \* the host's armed timers whose callback is the flush callback
    handlers,         \* number of handleUnload closures registered on window
    \* Transport
    isOnline,         \* Transport.isOnline
    pendingRequests,  \* Transport.pendingRequests, as indices into calls
    \* observation of the run
    calls,            \* every call of transport.send / transport.sendBeacon, in order
    asyncs,           \* every flushAsync call: the state of its promise
    nextId,           \* the id the next addEvent gives its event
    dropped,          \* events removed by EventQueue.enqueue's shift()
    run,              \* addEvent calls since the queue was last drained
    hist,             \* QueueSpec: the records enqueued since the queue was last emptied
    lastOp,           \* the operation that ran last and what it returned
    \* DashgramSDK (index)
    isInitialized,    \* DashgramSDK.isInitialized
    \* the producers: Config's track level and the trackers init() created
    trackLevel,       \* config.trackLevel; 0 while no Config exists
    isActive,         \* BaseTracker.isActive of the tracker of each level
    hasTrackedAppOpen, \* CoreTracker.hasTrackedAppOpen
    lastPath,         \* InteractionTracker.lastPath
    maxScrollDepth,   \* DeepTracker.maxScrollDepth
    clickTracker,     \* DeepTracker.clickTracker: per element, the count and
                      \* the time its timer expires (count 0: no entry)
    clickTimes,       \* per element, the times of the clicks its entry counts
    \* the session (core/session) and the clock
    now,              \* Date.now(), in milliseconds since the page loaded
    sessionId,        \* Session.sessionId, the sessions numbered as created
    lastActivity,     \* Session.lastActivity
    \* the window's listeners
    listeners         \* the pagehide / beforeunload listeners the SDK's core
                      \* tracker ("core") and scheduler ("scheduler") have on
                      \* the window, in the order they were added

vars == << batchSize, disabled, onError, hasBeacon, queue, maxSize, isStarted,
           flushTimer, timers, handlers, isOnline, pendingRequests, calls,
           asyncs, nextId, dropped, run, hist, lastOp, isInitialized,
           trackLevel, isActive, hasTrackedAppOpen, lastPath, maxScrollDepth,
           clickTracker,
           clickTimes, now, sessionId, lastActivity, listeners >>

\* the state of the producers and of the session
Producers == << trackLevel, isActive, hasTrackedAppOpen, lastPath,
                maxScrollDepth, clickTracker, clickTimes, now, sessionId,
                lastActivity, listeners >>

(* ------------------------------ helpers -------------------------------- *)
Range(s) == { s[i] : i \in DOMAIN s }

\* the last n elements of s (all of s when it is shorter)
LastN(s, n) == IF Len(s) <= n THEN s ELSE SubSeq(s, Len(s) - n + 1, Len(s))

\* what lastOp records of the operation that ran last:
\*   name    the operation
\*   arg     its input
\*   result  the batch it drained or returned
\*   made    how many transport calls it made
\*   net     whether fetch or navigator.sendBeacon was invoked in it
\*   ret     what the transport call returned: the state of send's promise
\*           ("pending", "fulfilled", "rejected"), sendBeacon's boolean ("true",
\*           "false"), "none" when no call was made
\*   err     the error the settled request rejected with, "none" otherwise
\*   cb      the errors handed to the onError callback in it
\*   raised  whether the onError callback raised an exception in it
\*   auto    the events the trackers tracked in it
Op(name, arg, result, made, net, ret) ==
    [name |-> name, arg |-> arg, result |-> result, made |-> made,
     net |-> net, ret |-> ret, err |-> "none", cb |-> << >>, raised |-> FALSE,
     auto |-> << >>]

Quiet(name) == Op(name, << >>, << >>, 0, FALSE, "none")

(* ------------------------------ EventQueue ----------------------------- *)
\* mutants of enqueue: reject the newest record when full; insert at the head
EventQueue_enqueue_dropNewest(q, e, n) == IF Len(q) >= n THEN q ELSE Append(q, e)

EventQueue_enqueue_unshift(q, e, n) ==
    LET pushed == << e >> \o q
    IN  IF Len(pushed) > n THEN SubSeq(pushed, 1, n) ELSE pushed

EventQueue_enqueue_noBound(q, e, n) == Append(q, e)

\* enqueue(event): push, then shift once when the length exceeds maxSize
EventQueue_enqueue(q, e, n) ==
    LET pushed == Append(q, e)
    IN  IF Len(pushed) > n THEN Tail(pushed) ELSE pushed

\* the record enqueue's shift() removes, as a set
EventQueue_shifted(q, e, n) ==
    LET pushed == Append(q, e)
    IN  IF Len(pushed) > n THEN {Head(pushed)} ELSE {}

\* mutant of flush: the newest record stays in the queue
EventQueue_flush_keepNewest(q) ==
    [events |-> q, queue |-> IF Len(q) > 1 THEN << q[Len(q)] >> ELSE << >>]

\* mutant of flush: the copy is returned and the queue is kept
EventQueue_flush_keep(q) == [events |-> q, queue |-> q]

\* flush(): a copy of the queue, and the queue reset to []
EventQueue_flush(q) == [events |-> q, queue |-> << >>]

\* peek(): a copy of the queue
EventQueue_peek(q) == q

\* size()
EventQueue_size(q) == Len(q)

\* clear()
EventQueue_clear(q) == << >>

(* ------------------------------ Transport ------------------------------ *)
\* what the host answers to one fetch: it throws, or a response with a status
Responses == { [threw |-> TRUE, status |-> 0] } \cup
             { [threw |-> FALSE, status |-> s] : s \in {200, 403, 500} }

\* response.ok
ResponseOk(resp) == resp.status >= 200 /\ resp.status <= 299

\* mutant of sendRequest: status 403 is an API error like any other
Transport_sendRequest_no403(resp) ==
    IF resp.threw THEN "NetworkError"
    ELSE IF ~ResponseOk(resp) THEN "DashgramAPIError"
    ELSE "none"

\* sendRequest: the error its promise rejects with, "none" when it fulfils
Transport_sendRequest(resp) ==
    IF resp.threw THEN "NetworkError"
    ELSE IF resp.status = 403 THEN "InvalidCredentialsError"
    ELSE IF ~ResponseOk(resp) THEN "DashgramAPIError"
    ELSE "none"

\* a field an object does not have
Undefined == "undefined"

\* the values JavaScript's || passes over
Falsy(v) == v = Undefined \/ v = ""

\* a || b
Or(a, b) == IF Falsy(a) THEN b ELSE a

\* what fetch throws (cause): an Error, or a value that is no Error; and the
\* bodies of a response: one response.json() rejects for, or an object whose
\* details and message fields are missing, empty or a text
Causes == { [isError |-> TRUE, message |-> "Failed to fetch"],
            [isError |-> FALSE, message |-> "aborted"] }

Bodies == { [parsable |-> FALSE, details |-> Undefined, message |-> Undefined] } \cup
          { [parsable |-> TRUE, details |-> d, message |-> m] :
                d \in {Undefined, "", "details"}, m \in {Undefined, "", "message"} }

\* what the host answers to one fetch, in full
FullResponses ==
    { [threw |-> TRUE, cause |-> c, status |-> 0, statusText |-> "",
       body |-> [parsable |-> FALSE, details |-> Undefined, message |-> Undefined]] :
          c \in Causes } \cup
    { [threw |-> FALSE, cause |-> [isError |-> FALSE, message |-> ""], status |-> st,
       statusText |-> tx, body |-> b] :
          st \in Statuses, tx \in {"", "statusText"}, b \in Bodies }

\* mutant of the detail: the message field is preferred to the details field
Transport_sendRequest_details_messageFirst(resp) ==
    IF resp.body.parsable
    THEN Or(Or(resp.body.message, resp.body.details), resp.statusText)
    ELSE resp.statusText

\* sendRequest, the detail of a DashgramAPIError: response.statusText, replaced
\* by errorData.details || errorData.message || details when response.json()
\* gives the body
Transport_sendRequest_details(resp) ==
    IF resp.body.parsable
    THEN Or(Or(resp.body.details, resp.body.message), resp.statusText)
    ELSE resp.statusText

\* sendRequest, the error it throws in full: its class, and the statusCode and
\* details of a DashgramAPIError, the originalError of a NetworkError (the
\* thrown Error itself, else new Error(String(error)))
Transport_sendRequest_thrown(resp) ==
    LET kind == Transport_sendRequest(resp)
    IN  [kind |-> kind,
         statusCode |-> IF kind = "DashgramAPIError" THEN resp.status ELSE 0,
         details |-> IF kind = "DashgramAPIError"
                     THEN Transport_sendRequest_details(resp) ELSE Undefined,
         originalError |-> IF kind # "NetworkError" THEN Undefined
                           ELSE IF resp.cause.isError THEN resp.cause
                           ELSE [isError |-> TRUE, message |-> resp.cause.message]]

\* mutant of safeStringify: the exception of JSON.stringify is passed on
safeStringify_throws(obj) == IF obj.circular THEN "TypeError" ELSE << "json", obj.events >>

\* safeStringify(obj): JSON.stringify(obj), '{}' when JSON.stringify throws (as
\* it does for an object with a circular reference or a BigInt)
safeStringify(obj) == IF obj.circular THEN "{}" ELSE << "json", obj.events >>

\* one entry of calls
Call(op, events) == [op |-> op, batch |-> events]

\* send returned without a request / send issued the request Len(c) + 1
SendSkipped(c, p, events) ==
    [calls |-> Append(c, Call("send", events)), pending |-> p,
     net |-> FALSE, ret |-> "fulfilled"]

SendIssued(c, p, events) ==
    [calls |-> Append(c, Call("send", events)), pending |-> p \cup {Len(c) + 1},
     net |-> TRUE, ret |-> "pending"]

\* mutants of send: the offline check is missing; the disabled check is missing
Transport_send_ignoreOffline(c, p, events) ==
    IF events = << >> \/ disabled THEN SendSkipped(c, p, events)
    ELSE SendIssued(c, p, events)

Transport_send_ignoreDisabled(c, p, events) ==
    IF events = << >> \/ ~isOnline THEN SendSkipped(c, p, events)
    ELSE SendIssued(c, p, events)

\* send(events), up to its first await: returns at once when the batch is empty,
\* the SDK is disabled or the transport is offline; otherwise issues the request
\* and adds it to pendingRequests. A request is named by its index in calls.
Transport_send(c, p, events) ==
    IF events = << >> \/ disabled \/ ~isOnline THEN SendSkipped(c, p, events)
    ELSE SendIssued(c, p, events)

\* the error classes sendRequest throws
TypedErrors == {"InvalidCredentialsError", "DashgramAPIError", "NetworkError"}

\* mutants of the callback dispatch: the callback is called twice; the callback
\* is called with a generic error
Transport_onErrorArgs_twice(err) == << err, err >>

Transport_onErrorArgs_generic(err) == << "Error" >>

\* the arguments of the onError calls send's catch block makes for the caught
\* error err: a typed error is handed over as it is, any other Error wrapped
\* in a NetworkError, and a thrown value that is no Error is not handed over
Transport_onErrorArgs(err) ==
    IF err \in TypedErrors THEN << err >>
    ELSE IF err = "Error" THEN << "NetworkError" >>
    ELSE << >>

\* mutant of the settlement: an exception of the callback skips the removal
\* of the request from pendingRequests
Transport_sendSettled_keepOnRaise(err, raised, p, r) ==
    [ret |-> "fulfilled",
     cb |-> IF err # "none" /\ onError THEN Transport_onErrorArgs(err) ELSE << >>,
     pending |-> IF raised THEN p ELSE p \ {r}]

\* mutant of the settlement: the error is rethrown to the caller of send
Transport_sendSettled_rethrow(err, raised, p, r) ==
    [ret |-> IF err = "none" THEN "fulfilled" ELSE "rejected",
     cb |-> IF err # "none" /\ onError THEN Transport_onErrorArgs(err) ELSE << >>,
     pending |-> p \ {r}]

\* mutant of the settlement: an exception of the callback leaves send
Transport_sendSettled_handlerEscapes(err, raised, p, r) ==
    [ret |-> IF err # "none" /\ onError /\ raised THEN "rejected" ELSE "fulfilled",
     cb |-> IF err # "none" /\ onError THEN Transport_onErrorArgs(err) ELSE << >>,
     pending |-> p \ {r}]

\* send(events) after `await request` of request r: a rejection is caught and
\* handed to onError when one is configured; an exception the callback raises
\* (raised) is caught too; finally r leaves pendingRequests (p), and the
\* promise of send fulfils either way
Transport_sendSettled(err, raised, p, r) ==
    [ret |-> "fulfilled",
     cb |-> IF err # "none" /\ onError THEN Transport_onErrorArgs(err) ELSE << >>,
     pending |-> p \ {r}]

BeaconReturned(c, events, net, ret) ==
    [calls |-> Append(c, Call("sendBeacon", events)), net |-> net, ret |-> ret]

\* mutant of sendBeacon: it skips the beacon while offline, as send does
Transport_sendBeacon_checkOnline(c, events, sent) ==
    IF events = << >> \/ disabled \/ ~isOnline THEN BeaconReturned(c, events, FALSE, "true")
    ELSE IF ~hasBeacon THEN BeaconReturned(c, events, FALSE, "false")
    ELSE BeaconReturned(c, events, TRUE, IF sent THEN "true" ELSE "false")

\* mutant of sendBeacon: the disabled check is missing
Transport_sendBeacon_ignoreDisabled(c, events, sent) ==
    IF events = << >> THEN BeaconReturned(c, events, FALSE, "true")
    ELSE IF ~hasBeacon THEN BeaconReturned(c, events, FALSE, "false")
    ELSE BeaconReturned(c, events, TRUE, IF sent THEN "true" ELSE "false")

\* mutant of sendBeacon: without navigator.sendBeacon the request primitive is
\* used instead
Transport_sendBeacon_fallback(c, events, sent) ==
    IF events = << >> \/ disabled THEN BeaconReturned(c, events, FALSE, "true")
    ELSE IF ~hasBeacon THEN BeaconReturned(c, events, TRUE, "true")
    ELSE BeaconReturned(c, events, TRUE, IF sent THEN "true" ELSE "false")

\* sendBeacon(events): true at once when the batch is empty or the SDK disabled,
\* false when navigator.sendBeacon is missing, else what navigator.sendBeacon
\* returns (sent)
Transport_sendBeacon(c, events, sent) ==
    IF events = << >> \/ disabled THEN BeaconReturned(c, events, FALSE, "true")
    ELSE IF ~hasBeacon THEN BeaconReturned(c, events, FALSE, "false")
    ELSE BeaconReturned(c, events, TRUE, IF sent THEN "true" ELSE "false")

\* flush(): Promise.all over a snapshot of pendingRequests
Transport_flush(p) == p

(* ---------------------------- BatchProcessor --------------------------- *)
\* one entry of asyncs, the promise of a flushAsync call: its state, the
\* request its own send issued (0 when it issued none), and the requests its
\* transport.flush() waits on
Async(state, own, waitOn) == [state |-> state, own |-> own, waitOn |-> waitOn]

\* flushAsync after its send has fulfilled: await transport.flush()
BatchProcessor_flushAsync_wait(own, p) ==
    IF Transport_flush(p) = {} THEN Async("resolved", own, {})
    ELSE Async("waiting", own, Transport_flush(p))

\* mutant of flushAsync: it awaits neither its send nor transport.flush()
BatchProcessor_flushAsync_call_unawaited(ret, own, p) ==
    Async("resolved", IF ret = "pending" THEN own ELSE 0, {})

\* flushAsync up to its first suspension, transport.send having returned ret
\* for the request own: a pending send is awaited; one that returned at once,
\* or none at all, leads straight on to transport.flush()
BatchProcessor_flushAsync_call(ret, own, p) ==
    IF ret = "pending" THEN Async("sending", own, {})
    ELSE BatchProcessor_flushAsync_wait(0, p)

\* mutant: a rejection of a request awaited through transport.flush() is caught
BatchProcessor_flushAsync_settled_caught(a, r, sendResult, failed, p) ==
    IF a.state = "sending" /\ a.own = r
    THEN IF sendResult = "rejected" THEN Async("rejected", a.own, {})
         ELSE BatchProcessor_flushAsync_wait(a.own, p)
    ELSE IF a.state = "waiting" /\ r \in a.waitOn
    THEN IF a.waitOn = {r} THEN Async("resolved", a.own, {})
         ELSE Async("waiting", a.own, a.waitOn \ {r})
    ELSE a

\* what the settlement of request r does to a flushAsync call. One awaiting its
\* own send (whose promise settled with sendResult) goes on to transport.flush()
\* over the requests then pending (p). One awaiting Promise.all over the raw
\* request promises rejects when r rejected (failed), and resolves when r was
\* the last request it waited on.
BatchProcessor_flushAsync_settled(a, r, sendResult, failed, p) ==
    IF a.state = "sending" /\ a.own = r
    THEN IF sendResult = "rejected" THEN Async("rejected", a.own, {})
         ELSE BatchProcessor_flushAsync_wait(a.own, p)
    ELSE IF a.state = "waiting" /\ r \in a.waitOn
    THEN IF failed THEN Async("rejected", a.own, {})
         ELSE IF a.waitOn = {r} THEN Async("resolved", a.own, {})
         ELSE Async("waiting", a.own, a.waitOn \ {r})
    ELSE a

\* the id setTimeout returns: the least one no armed timer has
FreshTimer(tm) == CHOOSE i \in 1..(Cardinality(tm) + 1) :
                      i \notin tm /\ \A j \in 1..(i - 1) : j \in tm

\* scheduleFlush(): clear the timer flushTimer names, arm a new one
BatchProcessor_scheduleFlush(ft, tm) ==
    LET cleared == IF ft # 0 THEN tm \ {ft} ELSE tm
        id == FreshTimer(cleared)
    IN  [flushTimer |-> id, timers |-> cleared \cup {id}]

NoCall(q, c, p, events) ==
    [queue |-> q, calls |-> c, pending |-> p, events |-> events,
     net |-> FALSE, ret |-> "none"]

\* mutant of flush: the drained batch is sent even when it is empty
BatchProcessor_flush_sendEmpty(q, c, p) ==
    LET d == EventQueue_flush(q)
        t == Transport_send(c, p, d.events)
    IN  [queue |-> d.queue, calls |-> t.calls, pending |-> t.pending,
         events |-> d.events, net |-> t.net, ret |-> t.ret]

\* mutant of flush: the batch is sent and kept in the queue for another attempt
BatchProcessor_flush_keepForRetry(q, c, p) ==
    LET t == Transport_send(c, p, EventQueue_peek(q))
    IN  IF Len(q) > 0
        THEN [queue |-> q, calls |-> t.calls, pending |-> t.pending,
              events |-> q, net |-> t.net, ret |-> t.ret]
        ELSE NoCall(q, c, p, q)

\* mutant of flush: while the transport is offline the batch stays queued
BatchProcessor_flush_keepOffline(q, c, p) ==
    LET d == EventQueue_flush(q)
        t == Transport_send(c, p, d.events)
    IN  IF ~isOnline THEN NoCall(q, c, p, << >>)
        ELSE IF Len(d.events) > 0
        THEN [queue |-> d.queue, calls |-> t.calls, pending |-> t.pending,
              events |-> d.events, net |-> t.net, ret |-> t.ret]
        ELSE NoCall(d.queue, c, p, d.events)

\* flush(): drain the queue; a non-empty batch goes to transport.send, unawaited
BatchProcessor_flush(q, c, p) ==
    LET d == EventQueue_flush(q)
        t == Transport_send(c, p, d.events)
    IN  IF Len(d.events) > 0
        THEN [queue |-> d.queue, calls |-> t.calls, pending |-> t.pending,
              events |-> d.events, net |-> t.net, ret |-> t.ret]
        ELSE NoCall(d.queue, c, p, d.events)

\* mutant of handleUnload: the drained batch goes to sendBeacon even when it
\* is empty
BatchProcessor_handleUnload_beaconEmpty(q, c, p, sent) ==
    LET d == EventQueue_flush(q)
        b == Transport_sendBeacon(c, d.events, sent)
    IN  [queue |-> d.queue, calls |-> b.calls, pending |-> p,
         events |-> d.events, net |-> b.net, ret |-> b.ret]

\* mutant of handleUnload: the batch goes to transport.send
BatchProcessor_handleUnload_send(q, c, p, sent) == BatchProcessor_flush(q, c, p)

\* handleUnload: drain the queue; a non-empty batch goes to transport.sendBeacon
BatchProcessor_handleUnload(q, c, p, sent) ==
    LET d == EventQueue_flush(q)
        b == Transport_sendBeacon(c, d.events, sent)
    IN  IF Len(d.events) > 0
        THEN [queue |-> d.queue, calls |-> b.calls, pending |-> p,
              events |-> d.events, net |-> b.net, ret |-> b.ret]
        ELSE NoCall(d.queue, c, p, d.events)

\* a lifecycle signal runs the k registered handleUnload closures in order; acc
\* is the state before, and keeps what the first transport call returned
RECURSIVE RunHandlers(_, _, _)
RunHandlers(k, acc, sent) ==
    IF k = 0 THEN acc
    ELSE LET h == BatchProcessor_handleUnload(acc.queue, acc.calls, acc.pending, sent)
         IN  RunHandlers(k - 1,
                 [h EXCEPT !.events = acc.events \o h.events,
                           !.net = acc.net \/ h.net,
                           !.ret = IF acc.ret # "none" THEN acc.ret ELSE h.ret],
                 sent)

\* mutant of addEvent: the threshold is tested before the event is enqueued
BatchProcessor_addEvent_flushFirst(q, c, p, e) ==
    LET f == IF EventQueue_size(q) >= batchSize THEN BatchProcessor_flush(q, c, p)
             ELSE NoCall(q, c, p, << >>)
    IN  [f EXCEPT !.queue = EventQueue_enqueue(f.queue, e, maxSize)]

\* addEvent(event): enqueue, then flush when size() >= batchSize
BatchProcessor_addEvent(q, c, p, e) ==
    LET q1 == EventQueue_enqueue(q, e, maxSize)
    IN  IF EventQueue_size(q1) >= batchSize THEN BatchProcessor_flush(q1, c, p)
        ELSE NoCall(q1, c, p, << >>)

\* addEvent for each of the events in order; acc is the state before, and keeps
\* every batch drained and what the first transport call returned
RECURSIVE BatchProcessor_addEvents(_, _)
BatchProcessor_addEvents(acc, events) ==
    IF events = << >> THEN acc
    ELSE LET a == BatchProcessor_addEvent(acc.queue, acc.calls, acc.pending,
                                          Head(events))
         IN  BatchProcessor_addEvents(
                 [a EXCEPT !.events = acc.events \o a.events,
                           !.net = acc.net \/ a.net,
                           !.ret = IF acc.ret # "none" THEN acc.ret ELSE a.ret],
                 Tail(events))

(* ------------------------------ producers ------------------------------ *)
\* the levels the trackers require: core 1, interaction 2, deep 3
Levels == {1, 2, 3}

\* the levels offered to init and setTrackLevel: the valid ones and one on
\* each side of them
TrackLevels == 0 .. 4

\* window.location.pathname of the page
CurrentPath == "/"

\* mutant of start: the tracker starts whatever the current level
BaseTracker_start_always(active, level, currentLevel) == TRUE

\* BaseTracker.start(): isActive after it, for a tracker of the given level
\* under config.getTrackLevel() = currentLevel
BaseTracker_start(active, level, currentLevel) ==
    active \/ currentLevel >= level

\* BaseTracker.start(): whether it ran setup()
BaseTracker_start_setup(active, level, currentLevel) ==
    ~active /\ currentLevel >= level

\* BaseTracker.stop(): isActive after it
BaseTracker_stop(active) == FALSE

\* an event a tracker hands to its trackCallback: its name and the numbers
\* among its properties
AutoEvent(name, properties) == [event |-> name, properties |-> properties]

\* whether the operation op tracked an event of the name
Tracked(op, name) == \E i \in DOMAIN op.auto : op.auto[i].event = name

\* CoreTracker.setup(): trackAppOpen() tracks app_open once per tracker
CoreTracker_setup(tracked) ==
    [events |-> IF tracked THEN << >> ELSE << AutoEvent("app_open", << >>) >>,
     hasTrackedAppOpen |-> TRUE]

\* InteractionTracker.setup(): trackScreenView() tracks screen_view when the
\* path is not the last one tracked
InteractionTracker_setup(last) ==
    [events |-> IF CurrentPath = last THEN << >>
                ELSE << AutoEvent("screen_view", << >>) >>,
     lastPath |-> CurrentPath]

\* the trackers after each was stopped and started under the level, in the
\* order core, interaction, deep; events are those their setup() tracked
Trackers_restart(active, tracked, last, level) ==
    LET stopped == [k \in Levels |-> BaseTracker_stop(active[k])]
        core == CoreTracker_setup(tracked)
        inter == InteractionTracker_setup(last)
        coreSetup == BaseTracker_start_setup(stopped[1], 1, level)
        interSetup == BaseTracker_start_setup(stopped[2], 2, level)
    IN  [isActive |-> [k \in Levels |-> BaseTracker_start(stopped[k], k, level)],
         hasTrackedAppOpen |-> IF coreSetup THEN core.hasTrackedAppOpen ELSE tracked,
         lastPath |-> IF interSetup THEN inter.lastPath ELSE last,
         events |-> (IF coreSetup THEN core.events ELSE << >>)
                    \o (IF interSetup THEN inter.events ELSE << >>)]

\* CoreTracker.teardown(): the unsubscribers remove the tracker's listeners
CoreTracker_teardown(ls) == SelectSeq(ls, LAMBDA l : l # "core")

\* setupUnloadTracking(): window.addEventListener for pagehide and
\* beforeunload puts the tracker's handleUnload last on both lists
CoreTracker_setupUnloadTracking(ls) == Append(ls, "core")

\* setupPageUnloadHandler(): window.addEventListener for pagehide and
\* beforeunload puts the scheduler's handleUnload last on both lists
BatchProcessor_setupPageUnloadHandler(ls) == Append(ls, "scheduler")

\* the window's listeners after the core tracker was stopped and started
\* under the level: stop() of an active tracker runs teardown(), start() runs
\* setup() when the level allows it
Listeners_restart(ls, active, level) ==
    LET stopped == IF active[1] THEN CoreTracker_teardown(ls) ELSE ls
    IN  IF BaseTracker_start_setup(BaseTracker_stop(active[1]), 1, level)
        THEN CoreTracker_setupUnloadTracking(stopped)
        ELSE stopped

\* no entry for an element in DeepTracker.clickTracker
NoEntry == [count |-> 0, timer |-> 0]

(* ------------------------------- Session ------------------------------- *)
\* the time in milliseconds after which a session has expired
SESSION_TIMEOUT == 30 * 60 * 1000

\* mutant of isExpired: a session expires at the timeout
Session_isExpired_inclusive(t, last) == t - last >= SESSION_TIMEOUT

\* isExpired() at the time t of a session whose lastActivity is last
Session_isExpired(t, last) == t - last > SESSION_TIMEOUT

\* reset() at the time t: createNewSession() and lastActivity = Date.now();
\* generateUUID() returns an id no session had, the next number
Session_reset(id, t) == [sessionId |-> id + 1, lastActivity |-> t]

\* renewIfExpired() at the time t
Session_renewIfExpired(id, last, t) ==
    IF Session_isExpired(t, last) THEN Session_reset(id, t)
    ELSE [sessionId |-> id, lastActivity |-> last]

\* updateLastActivity() at the time t: lastActivity after it
Session_updateLastActivity(t) == t

(* ------------------------------- actions ------------------------------- *)
\* the pipeline after construction: Config resolved from one of the given
\* settings, Transport constructed (isOnline = navigator.onLine, one of
\* onLines), BatchProcessor constructed and not started
InitWith(batchSizes, capacities, disableds, onErrors, beacons, onLines) ==
    /\ batchSize \in batchSizes
    /\ maxSize \in capacities
    /\ disabled \in disableds
    /\ onError \in onErrors
    /\ hasBeacon \in beacons
    /\ isOnline \in onLines
    /\ queue = << >>
    /\ isStarted = FALSE
    /\ flushTimer = 0
    /\ timers = {}
    /\ handlers = 0
    /\ pendingRequests = {}
    /\ calls = << >>
    /\ asyncs = << >>
    /\ nextId = 1
    /\ dropped = {}
    /\ run = 0
    /\ hist = << >>
    /\ lastOp = Quiet("init")
    /\ isInitialized = FALSE
    /\ trackLevel = 0
    /\ isActive = [k \in Levels |-> FALSE]
    /\ hasTrackedAppOpen = FALSE
    /\ lastPath = ""
    /\ maxScrollDepth = 0
    /\ clickTracker = [el \in Elements |-> NoEntry]
    /\ clickTimes = [el \in Elements |-> << >>]
    /\ now = 0
    /\ sessionId = 1
    /\ lastActivity = 0
    /\ listeners = << >>

Config == << batchSize, disabled, onError, hasBeacon, maxSize >>

\* what an operation that returned f made of the transport
Made(name, arg, f) == Op(name, arg, f.events, Len(f.calls) - Len(calls), f.net, f.ret)

\* mutant of start: it has no isStarted test, so every call arms a timer and
\* registers the listeners
StartUpTo_again(n) ==
    /\ handlers < n
    /\ LET s == BatchProcessor_scheduleFlush(flushTimer, timers)
       IN  /\ isStarted' = TRUE
           /\ flushTimer' = s.flushTimer
           /\ timers' = s.timers
           /\ handlers' = handlers + 1
    /\ lastOp' = [Quiet("start") EXCEPT !.arg = << IF isStarted THEN 1 ELSE 0 >>]
    /\ UNCHANGED << Config, Producers, isInitialized, queue, isOnline, pendingRequests, calls, asyncs,
                    nextId, dropped, run, hist >>

\* BatchProcessor.start(), registering listeners at most n times; lastOp keeps
\* whether the scheduler was started already (1) or not (0)
StartUpTo(n) ==
    /\ isStarted \/ handlers < n
    /\ IF isStarted
       THEN UNCHANGED << isStarted, flushTimer, timers, handlers >>
       ELSE LET s == BatchProcessor_scheduleFlush(flushTimer, timers)
            IN  /\ isStarted' = TRUE
                /\ flushTimer' = s.flushTimer
                /\ timers' = s.timers
                /\ handlers' = handlers + 1
    /\ lastOp' = [Quiet("start") EXCEPT !.arg = << IF isStarted THEN 1 ELSE 0 >>]
    /\ UNCHANGED << Config, Producers, isInitialized, queue, isOnline, pendingRequests, calls, asyncs,
                    nextId, dropped, run, hist >>

\* mutant of stop: it removes the listeners start() registered
Stop_unregisters ==
    /\ isStarted' = FALSE
    /\ IF flushTimer # 0
       THEN timers' = timers \ {flushTimer} /\ flushTimer' = 0
       ELSE UNCHANGED << timers, flushTimer >>
    /\ handlers' = 0
    /\ lastOp' = Quiet("stop")
    /\ UNCHANGED << Config, Producers, isInitialized, queue, isOnline, pendingRequests, calls,
                    asyncs, nextId, dropped, run, hist >>

\* mutant of stop: it flushes the queue before it stops
Stop_flushes ==
    /\ LET f == BatchProcessor_flush(queue, calls, pendingRequests)
       IN  /\ queue' = f.queue
           /\ calls' = f.calls
           /\ pendingRequests' = f.pending
    /\ isStarted' = FALSE
    /\ IF flushTimer # 0
       THEN timers' = timers \ {flushTimer} /\ flushTimer' = 0
       ELSE UNCHANGED << timers, flushTimer >>
    /\ lastOp' = Quiet("stop")
    /\ UNCHANGED << Config, Producers, isInitialized, handlers, isOnline,
                    asyncs, nextId, dropped, run, hist >>

\* mutant of stop: the armed timer is not cleared
Stop_keepTimer ==
    /\ isStarted' = FALSE
    /\ lastOp' = Quiet("stop")
    /\ UNCHANGED << Config, Producers, isInitialized, queue, flushTimer, timers, handlers, isOnline,
                    pendingRequests, calls, asyncs, nextId, dropped, run, hist >>

\* BatchProcessor.stop()
Stop ==
    /\ isStarted' = FALSE
    /\ IF flushTimer # 0
       THEN timers' = timers \ {flushTimer} /\ flushTimer' = 0
       ELSE UNCHANGED << timers, flushTimer >>
    /\ lastOp' = Quiet("stop")
    /\ UNCHANGED << Config, Producers, isInitialized, queue, handlers, isOnline, pendingRequests, calls,
                    asyncs, nextId, dropped, run, hist >>

\* BatchProcessor.addEvent(event), the event being the nextId-th one of at
\* most n
AddEventOf(name, arg, n) ==
    /\ nextId <= n
    /\ LET a == BatchProcessor_addEvent(queue, calls, pendingRequests, nextId)
       IN  /\ queue' = a.queue
           /\ calls' = a.calls
           /\ pendingRequests' = a.pending
           /\ dropped' = dropped \cup EventQueue_shifted(queue, nextId, maxSize)
           /\ run' = IF a.ret # "none" THEN 0 ELSE run + 1
           /\ lastOp' = Made(name, arg, a)
    /\ nextId' = nextId + 1
    /\ UNCHANGED << Config, isStarted, flushTimer, timers, handlers, isOnline,
                    asyncs, hist >>

\* the same, called by an operation name that changes nothing else
AddEventAs(name, n) ==
    /\ AddEventOf(name, << nextId >>, n)
    /\ UNCHANGED << Producers, isInitialized >>

AddEventUpTo(n) == AddEventAs("addEvent", n)

\* BatchProcessor.flush(), called from outside
Flush ==
    /\ LET f == BatchProcessor_flush(queue, calls, pendingRequests)
       IN  /\ queue' = f.queue
           /\ calls' = f.calls
           /\ pendingRequests' = f.pending
           /\ lastOp' = Made("flush", << >>, f)
    /\ run' = 0
    /\ UNCHANGED << Config, Producers, isInitialized, isStarted, flushTimer, timers, handlers, isOnline,
                    asyncs, nextId, dropped, hist >>

\* mutant of the timer callback: it flushes and arms no new timer
TimerFire_noRearm(t) ==
    /\ t \in timers
    /\ LET f == BatchProcessor_flush(queue, calls, pendingRequests)
       IN  /\ queue' = f.queue
           /\ calls' = f.calls
           /\ pendingRequests' = f.pending
           /\ flushTimer' = IF flushTimer = t THEN -1 ELSE flushTimer
           /\ timers' = timers \ {t}
           /\ lastOp' = Made("timer", << >>, f)
    /\ run' = 0
    /\ UNCHANGED << Config, Producers, isInitialized, isStarted, handlers, isOnline, asyncs, nextId,
                    dropped, hist >>

\* the callback scheduleFlush hands to setTimeout, run when timer t expires:
\* flush(), then scheduleFlush() again when still started
TimerFire(t) ==
    /\ t \in timers
    /\ LET f == BatchProcessor_flush(queue, calls, pendingRequests)
           fired == IF flushTimer = t THEN -1 ELSE flushTimer
           s == IF isStarted
                THEN BatchProcessor_scheduleFlush(fired, timers \ {t})
                ELSE [flushTimer |-> fired, timers |-> timers \ {t}]
       IN  /\ queue' = f.queue
           /\ calls' = f.calls
           /\ pendingRequests' = f.pending
           /\ flushTimer' = s.flushTimer
           /\ timers' = s.timers
           /\ lastOp' = Made("timer", << >>, f)
    /\ run' = 0
    /\ UNCHANGED << Config, Producers, isInitialized, isStarted, handlers, isOnline, asyncs, nextId,
                    dropped, hist >>

\* the three lifecycle signals start() listens to
Signals == {"visibilitychange", "pagehide", "beforeunload"}

\* a lifecycle signal reaches the listeners start() registered (visibilitychange
\* with document.visibilityState === 'hidden': its listener does nothing
\* otherwise); sent is what navigator.sendBeacon returns
UnloadAs(arg, sent) ==
    /\ handlers > 0
    /\ LET h == RunHandlers(handlers, NoCall(queue, calls, pendingRequests, << >>), sent)
       IN  /\ queue' = h.queue
           /\ calls' = h.calls
           /\ pendingRequests' = h.pending
           /\ lastOp' = Made("unload", arg, h)
    /\ run' = 0
    /\ UNCHANGED << Config, Producers, isInitialized, isStarted, flushTimer, timers, handlers, isOnline,
                    asyncs, nextId, dropped, hist >>

Unload(sig, sent) == UnloadAs(<< >>, sent)

\* the same, the signal kept in lastOp, and visibilitychange reaching its
\* listener whatever document.visibilityState is (hidden or not): the listener
\* calls handleUnload only when it is 'hidden'
LifecycleSignal(sig, hidden, sent) ==
    IF sig = "visibilitychange" /\ ~hidden
    THEN /\ handlers > 0
         /\ lastOp' = Op("signal", << sig >>, << >>, 0, FALSE, "none")
         /\ UNCHANGED << Config, Producers, isInitialized, queue, isStarted, flushTimer, timers, handlers,
                         isOnline, pendingRequests, calls, asyncs, nextId,
                         dropped, run, hist >>
    ELSE UnloadAs(<< sig >>, sent)

\* the window's online / offline events reach Transport's listeners
Online ==
    /\ ~isOnline
    /\ isOnline' = TRUE
    /\ lastOp' = Quiet("online")
    /\ UNCHANGED << Config, Producers, isInitialized, queue, isStarted, flushTimer, timers, handlers,
                    pendingRequests, calls, asyncs, nextId, dropped, run, hist >>

Offline ==
    /\ isOnline
    /\ isOnline' = FALSE
    /\ lastOp' = Quiet("offline")
    /\ UNCHANGED << Config, Producers, isInitialized, queue, isStarted, flushTimer, timers, handlers,
                    pendingRequests, calls, asyncs, nextId, dropped, run, hist >>

\* BatchProcessor.flushAsync(), up to its first suspension: drain, send a
\* non-empty batch and await it; a send that returned at once, or no send at
\* all, leads straight on to transport.flush()
FlushAsync ==
    /\ Len(asyncs) < MaxFlushAsync
    /\ LET f == BatchProcessor_flush(queue, calls, pendingRequests)
       IN  /\ queue' = f.queue
           /\ calls' = f.calls
           /\ pendingRequests' = f.pending
           /\ asyncs' = Append(asyncs,
                  BatchProcessor_flushAsync_call(f.ret, Len(f.calls), f.pending))
           /\ lastOp' = Made("flushAsync", << >>, f)
    /\ run' = 0
    /\ UNCHANGED << Config, Producers, isInitialized, isStarted, flushTimer, timers, handlers, isOnline,
                    nextId, dropped, hist >>

\* the fetch of request r settles with resp: sendRequest's promise settles,
\* send's catch / finally run, and every flushAsync awaiting r goes on; raised
\* says whether the onError callback, when it is called, raises
Settle(r, resp, raised) ==
    /\ r \in pendingRequests
    /\ raised => (onError /\ Transport_sendRequest(resp) # "none")
    /\ LET err == Transport_sendRequest(resp)
           done == Transport_sendSettled(err, raised, pendingRequests, r)
           left == done.pending
       IN  /\ pendingRequests' = left
           /\ asyncs' = [i \in DOMAIN asyncs |->
                  BatchProcessor_flushAsync_settled(asyncs[i], r, done.ret,
                                                    err # "none", left)]
           /\ lastOp' = [Op("settle", << r >>, << >>, 0, FALSE, done.ret)
                           EXCEPT !.err = err, !.cb = done.cb,
                                  !.raised = raised]
    /\ UNCHANGED << Config, Producers, isInitialized, queue, isStarted, flushTimer, timers, handlers,
                    isOnline, calls, nextId, dropped, run, hist >>

\* transport.send(events) called directly; the promise is not awaited
DirectSend(events) ==
    /\ Len(calls) < MaxDirect
    /\ LET t == Transport_send(calls, pendingRequests, events)
       IN  /\ calls' = t.calls
           /\ pendingRequests' = t.pending
           /\ lastOp' = Op("send", events, << >>, 1, t.net, t.ret)
    /\ UNCHANGED << Config, Producers, isInitialized, queue, isStarted, flushTimer, timers, handlers,
                    isOnline, asyncs, nextId, dropped, run, hist >>

\* transport.sendBeacon(events) called directly
DirectBeacon(events, sent) ==
    /\ Len(calls) < MaxDirect
    /\ LET b == Transport_sendBeacon(calls, events, sent)
       IN  /\ calls' = b.calls
           /\ lastOp' = Op("sendBeacon", events, << >>, 1, b.net, b.ret)
    /\ UNCHANGED << Config, Producers, isInitialized, queue, isStarted, flushTimer, timers, handlers,
                    isOnline, pendingRequests, asyncs, nextId, dropped, run, hist >>

(* ----------------------------- DashgramSDK ----------------------------- *)
\* mutant of ensureInitialized: it throws the typed configuration error
DashgramSDK_ensureInitialized_typed(initialized) ==
    IF ~initialized THEN "DashgramConfigurationError" ELSE "none"

\* ensureInitialized(): what it throws, "none" when it returns
DashgramSDK_ensureInitialized(initialized) ==
    IF ~initialized THEN "Error" ELSE "none"

\* mutant of track: a disabled SDK refuses the call
DashgramSDK_track_thrown_whenDisabled(initialized) ==
    IF ~initialized \/ disabled THEN "Error" ELSE "none"

\* track(event, properties): what it throws, "none" when it returns.
\* ensureInitialized is its only statement that throws: buildEvent reads the
\* context and the config, addEvent does not await the send it may start
DashgramSDK_track_thrown(initialized) == DashgramSDK_ensureInitialized(initialized)

\* Config's constructor: what validate() throws for a user config with or
\* without projectId and apiKey
Config_validate(valid) == IF valid THEN "none" ELSE "DashgramConfigurationError"

\* an operation of the SDK that threw err and changed nothing
ThrownWith(name, arg, err) ==
    /\ lastOp' = [Quiet(name) EXCEPT !.arg = arg, !.err = err]
    /\ UNCHANGED << Config, Producers, isInitialized, queue, isStarted, flushTimer, timers,
                    handlers, isOnline, pendingRequests, calls, asyncs, nextId,
                    dropped, run, hist >>

Thrown(name, err) == ThrownWith(name, << >>, err)

\* mutant of Config.validate: every trackLevel is taken
Config_validateTrackLevel_any(level) == "none"

\* the arguments of an init() call as lastOp records them: the trackLevel of
\* the user config, whether it has a projectId (1) or not (0), and whether
\* isBrowser() holds (1) or not (0)
UserConfig(valid, level, browser) ==
    << level, IF valid THEN 1 ELSE 0, IF browser THEN 1 ELSE 0 >>

\* Config.validate(): what it throws for the trackLevel of the user config
Config_validateTrackLevel(level) ==
    IF level \notin {1, 2, 3} THEN "DashgramConfigurationError" ELSE "none"

\* mutant of Config.setTrackLevel: every level is taken
Config_setTrackLevel_unchecked(level) == "none"

\* Config.setTrackLevel(level): what it throws, "none" when it sets the level
Config_setTrackLevel(level) ==
    IF level \notin {1, 2, 3} THEN "DashgramConfigurationError" ELSE "none"

\* trackAuto(event, properties), called by the trackers for each of the
\* events: those it hands to addEvent
DashgramSDK_trackAuto(initialized, events) ==
    IF ~initialized THEN << >> ELSE events

\* DeepTracker.teardown(), run by stop() on an active tracker:
\* clickTracker.clear()
DeepTracker_teardown(active, entries, none) ==
    IF active THEN [el \in DOMAIN entries |-> none] ELSE entries

\* the milestones of setupScrollTracking
Milestones == << 25, 50, 75, 100 >>

\* milestones.find(m => depth >= m && this.maxScrollDepth - depth < m), 0 for
\* undefined
DeepTracker_milestone(depth, max) ==
    LET found == {i \in DOMAIN Milestones :
                     depth >= Milestones[i] /\ max - depth < Milestones[i]}
    IN  IF found = {} THEN 0
        ELSE Milestones[CHOOSE i \in found : \A j \in found : i <= j]

\* the throttled scroll handler with getScrollDepth() = depth: maxScrollDepth
\* after it and the events it tracks
DeepTracker_handleScroll(depth, max) ==
    IF depth > max
    THEN [maxScrollDepth |-> depth,
          events |-> IF DeepTracker_milestone(depth, depth) # 0
                     THEN << AutoEvent("scroll_depth",
                                << DeepTracker_milestone(depth, depth), depth >>) >>
                     ELSE << >>]
    ELSE [maxScrollDepth |-> max, events |-> << >>]

\* setupRageClickTracking: the clicks that make a rage click, and the time in
\* milliseconds after which the entry of an element is deleted
RAGE_THRESHOLD == 5
RAGE_TIMEOUT == 2000

\* mutant of handleClick: the timer armed at the first click is left running
DeepTracker_handleClick_fixedWindow(entry, t) ==
    IF entry.count > 0
    THEN IF entry.count + 1 >= RAGE_THRESHOLD
         THEN [entry |-> NoEntry,
               events |-> << AutoEvent("rage_click", << entry.count + 1 >>) >>]
         ELSE [entry |-> [count |-> entry.count + 1, timer |-> entry.timer],
               events |-> << >>]
    ELSE [entry |-> [count |-> 1, timer |-> t + RAGE_TIMEOUT], events |-> << >>]

\* handleClick at time t on an element whose entry in clickTracker is entry
\* (count 0: none): the entry after it and the events it tracks. The timer of
\* an entry is the time its setTimeout callback is due.
DeepTracker_handleClick(entry, t) ==
    IF entry.count > 0
    THEN IF entry.count + 1 >= RAGE_THRESHOLD
         THEN [entry |-> NoEntry,
               events |-> << AutoEvent("rage_click", << entry.count + 1 >>) >>]
         ELSE [entry |-> [count |-> entry.count + 1, timer |-> t + RAGE_TIMEOUT],
               events |-> << >>]
    ELSE [entry |-> [count |-> 1, timer |-> t + RAGE_TIMEOUT], events |-> << >>]

\* the entries whose timer is due at time t
DeepTracker_due(entries, t) ==
    {el \in DOMAIN entries : entries[el].count > 0 /\ t >= entries[el].timer}

\* the events a tracker tracked in the operation name (t.events): each goes
\* through trackAuto to addEvent of the queue q; at most n events exist
AutoTracked(name, arg, t, q, n) ==
    LET accepted == DashgramSDK_trackAuto(isInitialized, t.events)
        ids == [i \in 1 .. Len(accepted) |-> nextId + i - 1]
        a == BatchProcessor_addEvents(NoCall(q, calls, pendingRequests, << >>), ids)
    IN  /\ nextId + Len(ids) <= n + 1
        /\ queue' = a.queue
        /\ calls' = a.calls
        /\ pendingRequests' = a.pending
        /\ nextId' = nextId + Len(ids)
        /\ dropped' = dropped \cup ((Range(q) \cup Range(ids))
                                      \ (Range(a.queue) \cup Range(a.events)))
        /\ run' = IF a.ret # "none" \/ q # queue THEN 0 ELSE run + Len(ids)
        /\ lastOp' = [Made(name, arg, a) EXCEPT !.auto = t.events]

\* DashgramSDK.init(userConfig): returns at once when initialized already or
\* outside a browser; else constructs Config (which validates), Transport
\* (isOnline = navigator.onLine, onLine) and BatchProcessor (a new queue, its
\* handleUnload the only one that sees it), sets up and starts new trackers,
\* starts the scheduler and only then sets isInitialized. The requests of an
\* earlier transport stay in flight, and the listener of an earlier scheduler
\* sees only that scheduler's queue, which shutdown() left empty.
DashgramSDK_init(valid, level, browser, onLine) ==
    IF isInitialized \/ ~browser
    THEN ThrownWith("sdkInit", UserConfig(valid, level, browser), "none")
    ELSE IF Config_validate(valid) # "none"
    THEN ThrownWith("sdkInit", UserConfig(valid, level, browser), Config_validate(valid))
    ELSE IF Config_validateTrackLevel(level) # "none"
    THEN ThrownWith("sdkInit", UserConfig(valid, level, browser),
                    Config_validateTrackLevel(level))
    ELSE LET s == BatchProcessor_scheduleFlush(0, timers)
             t == Trackers_restart([k \in Levels |-> FALSE], FALSE, "", level)
         IN  /\ trackLevel' = level
             /\ AutoTracked("sdkInit", UserConfig(valid, level, browser), t, << >>,
                            MaxEvents)
             /\ isActive' = t.isActive
             /\ hasTrackedAppOpen' = t.hasTrackedAppOpen
             /\ lastPath' = t.lastPath
             /\ maxScrollDepth' = 0
             /\ clickTracker' = [el \in Elements |-> NoEntry]
             /\ clickTimes' = [el \in Elements |-> << >>]
             /\ isOnline' = onLine
             /\ isStarted' = TRUE
             /\ flushTimer' = s.flushTimer
             /\ timers' = s.timers
             /\ handlers' = 1
             /\ listeners' = BatchProcessor_setupPageUnloadHandler(
                                 Listeners_restart(<< >>, [k \in Levels |-> FALSE], level))
             /\ isInitialized' = TRUE
             /\ UNCHANGED << Config, now, sessionId, lastActivity, asyncs, hist >>

\* DashgramSDK.setTrackLevel(level): ensureInitialized, config.setTrackLevel,
\* then stop() and start() of every tracker, at most n events existing
DashgramSDK_setTrackLevel(level, n) ==
    IF DashgramSDK_ensureInitialized(isInitialized) # "none"
    THEN ThrownWith("setTrackLevel", << level >>,
                    DashgramSDK_ensureInitialized(isInitialized))
    ELSE IF Config_setTrackLevel(level) # "none"
    THEN ThrownWith("setTrackLevel", << level >>, Config_setTrackLevel(level))
    ELSE LET t == Trackers_restart(isActive, hasTrackedAppOpen, lastPath, level)
         IN  /\ trackLevel' = level
             /\ AutoTracked("setTrackLevel", << level >>, t, queue, n)
             /\ isActive' = t.isActive
             /\ hasTrackedAppOpen' = t.hasTrackedAppOpen
             /\ lastPath' = t.lastPath
             /\ clickTracker' = DeepTracker_teardown(isActive[3], clickTracker, NoEntry)
             /\ clickTimes' = DeepTracker_teardown(isActive[3], clickTimes, << >>)
             /\ listeners' = Listeners_restart(listeners, isActive, level)
             /\ UNCHANGED << Config, maxScrollDepth, now, sessionId, lastActivity,
                             isInitialized, isStarted, flushTimer, timers,
                             handlers, isOnline, asyncs, hist >>

\* the scroll listener of an active deep tracker runs its throttled handler
\* with getScrollDepth() = depth, at most n events existing
Scroll(depth, n) ==
    /\ isActive[3]
    /\ LET h == DeepTracker_handleScroll(depth, maxScrollDepth)
       IN  /\ maxScrollDepth' = h.maxScrollDepth
           /\ AutoTracked("scroll", << depth >>, h, queue, n)
    /\ UNCHANGED << Config, listeners, trackLevel, isActive, hasTrackedAppOpen, lastPath,
                    clickTracker, clickTimes, now, sessionId, lastActivity,
                    isInitialized, isStarted, flushTimer, timers, handlers,
                    isOnline, asyncs, hist >>

\* the click listener of an active deep tracker runs handleClick for a click
\* on el at the time now, at most n events existing; a timer that is due runs
\* before it
Click(el, n) ==
    /\ isActive[3]
    /\ DeepTracker_due(clickTracker, now) = {}
    /\ LET h == DeepTracker_handleClick(clickTracker[el], now)
           times == Append(clickTimes[el], now)
       IN  /\ clickTracker' = [clickTracker EXCEPT ![el] = h.entry]
           /\ clickTimes' = [clickTimes EXCEPT
                                 ![el] = IF h.entry.count = 0 THEN << >> ELSE times]
           /\ AutoTracked("click", times, h, queue, n)
    /\ UNCHANGED << Config, listeners, trackLevel, isActive, hasTrackedAppOpen, lastPath,
                    maxScrollDepth, now, sessionId, lastActivity,
                    isInitialized, isStarted, flushTimer, timers, handlers,
                    isOnline, asyncs, hist >>

\* the callback of the timer of el's entry, run when it is due:
\* clickTracker.delete(target)
ClickTimer(el) ==
    /\ el \in DeepTracker_due(clickTracker, now)
    /\ clickTracker' = [clickTracker EXCEPT ![el] = NoEntry]
    /\ clickTimes' = [clickTimes EXCEPT ![el] = << >>]
    /\ lastOp' = Quiet("clickTimer")
    /\ UNCHANGED << Config, listeners, trackLevel, isActive, hasTrackedAppOpen, lastPath,
                    maxScrollDepth, now, sessionId, lastActivity,
                    isInitialized, queue, isStarted, flushTimer, timers,
                    handlers, isOnline, pendingRequests, calls, asyncs, nextId,
                    dropped, run, hist >>

\* d milliseconds pass, up to the time max, none of the click timers being
\* overdue at any moment
Tick(d, max) ==
    /\ now + d <= max
    /\ \A el \in Elements :
           clickTracker[el].count > 0 => now + d <= clickTracker[el].timer
    /\ now' = now + d
    /\ lastOp' = Quiet("tick")
    /\ UNCHANGED << Config, listeners, trackLevel, isActive, hasTrackedAppOpen, lastPath,
                    maxScrollDepth, clickTracker, clickTimes, sessionId,
                    lastActivity, isInitialized, queue, isStarted, flushTimer,
                    timers, handlers, isOnline, pendingRequests, calls, asyncs,
                    nextId, dropped, run, hist >>

\* buildEvent(event, properties, source) of the SDK that keeps a Session, at
\* the time now: renewIfExpired(), updateLastActivity(), and the event built
\* carries getSessionId(); the operation records the time since the last
\* activity and the session id of the event
BuildEvent ==
    /\ LET r == Session_renewIfExpired(sessionId, lastActivity, now)
       IN  /\ r.sessionId <= MaxSessions
           /\ sessionId' = r.sessionId
           /\ lastActivity' = Session_updateLastActivity(now)
           /\ lastOp' = Op("buildEvent", << now - lastActivity >>,
                           << r.sessionId >>, 0, FALSE, "none")
    /\ UNCHANGED << Config, listeners, trackLevel, isActive, hasTrackedAppOpen, lastPath,
                    maxScrollDepth, clickTracker, clickTimes, now,
                    isInitialized, queue, isStarted, flushTimer, timers,
                    handlers, isOnline, pendingRequests, calls, asyncs, nextId,
                    dropped, run, hist >>

\* reset() of that SDK: session.reset()
SessionReset ==
    /\ LET r == Session_reset(sessionId, now)
       IN  /\ r.sessionId <= MaxSessions
           /\ sessionId' = r.sessionId
           /\ lastActivity' = r.lastActivity
    /\ lastOp' = Quiet("reset")
    /\ UNCHANGED << Config, listeners, trackLevel, isActive, hasTrackedAppOpen, lastPath,
                    maxScrollDepth, clickTracker, clickTimes, now,
                    isInitialized, queue, isStarted, flushTimer, timers,
                    handlers, isOnline, pendingRequests, calls, asyncs, nextId,
                    dropped, run, hist >>

\* DashgramSDK.track(event, properties), the event being one of at most n
DashgramSDK_track(n) ==
    IF DashgramSDK_track_thrown(isInitialized) # "none"
    THEN nextId <= n /\ Thrown("track", DashgramSDK_track_thrown(isInitialized))
    ELSE AddEventAs("track", n)

\* mutant of shutdown: the queue is not flushed
DashgramSDK_shutdown_noFlush ==
    IF ~isInitialized THEN Thrown("shutdown", "none")
    ELSE /\ isActive' = [k \in Levels |-> BaseTracker_stop(isActive[k])]
         /\ clickTracker' = DeepTracker_teardown(isActive[3], clickTracker, NoEntry)
         /\ clickTimes' = DeepTracker_teardown(isActive[3], clickTimes, << >>)
         /\ lastOp' = Quiet("shutdown")
         /\ listeners' = IF isActive[1] THEN CoreTracker_teardown(listeners)
                         ELSE listeners
         /\ isStarted' = FALSE
         /\ IF flushTimer # 0
            THEN timers' = timers \ {flushTimer} /\ flushTimer' = 0
            ELSE UNCHANGED << timers, flushTimer >>
         /\ isInitialized' = FALSE
         /\ UNCHANGED << Config, trackLevel, hasTrackedAppOpen, lastPath,
                         maxScrollDepth, now, sessionId, lastActivity, queue,
                         calls, pendingRequests, run, handlers, isOnline,
                         asyncs, nextId, dropped, hist >>

\* DashgramSDK.shutdown(): nothing when not initialized; else stop() of every
\* tracker, then flush() and stop() of the scheduler
DashgramSDK_shutdown ==
    IF ~isInitialized THEN Thrown("shutdown", "none")
    ELSE /\ isActive' = [k \in Levels |-> BaseTracker_stop(isActive[k])]
         /\ clickTracker' = DeepTracker_teardown(isActive[3], clickTracker, NoEntry)
         /\ clickTimes' = DeepTracker_teardown(isActive[3], clickTimes, << >>)
         /\ listeners' = IF isActive[1] THEN CoreTracker_teardown(listeners)
                         ELSE listeners
         /\ UNCHANGED << trackLevel, hasTrackedAppOpen, lastPath, maxScrollDepth,
                         now, sessionId, lastActivity >>
         /\ LET f == BatchProcessor_flush(queue, calls, pendingRequests)
            IN  /\ queue' = f.queue
                /\ calls' = f.calls
                /\ pendingRequests' = f.pending
                /\ lastOp' = Made("shutdown", << >>, f)
         /\ isStarted' = FALSE
         /\ IF flushTimer # 0
            THEN timers' = timers \ {flushTimer} /\ flushTimer' = 0
            ELSE UNCHANGED << timers, flushTimer >>
         /\ isInitialized' = FALSE
         /\ run' = 0
         /\ UNCHANGED << Config, handlers, isOnline, asyncs, nextId, dropped, hist >>

\* the signals both the core tracker and the scheduler listen to on the window
PageHideSignals == {"pagehide", "beforeunload"}

\* the events the core tracker's handleUnload tracks
CoreTracker_handleUnload == << AutoEvent("app_close", << >>) >>

\* the window runs the listeners ls of a pagehide or beforeunload in the order
\* they were added: the core tracker's handleUnload tracks app_close, which
\* trackAuto hands to addEvent as the record id; the scheduler's handleUnload
\* drains the queue into sendBeacon. acc is the state before, and keeps every
\* batch drained and what the first transport call returned
RECURSIVE Window_dispatch(_, _, _, _)
Window_dispatch(ls, acc, id, sent) ==
    IF ls = << >> THEN acc
    ELSE IF Head(ls) = "core"
    THEN LET accepted == DashgramSDK_trackAuto(isInitialized, CoreTracker_handleUnload)
             ids == [i \in 1 .. Len(accepted) |-> id + i - 1]
         IN  Window_dispatch(Tail(ls), BatchProcessor_addEvents(acc, ids),
                             id + Len(ids), sent)
    ELSE LET h == BatchProcessor_handleUnload(acc.queue, acc.calls, acc.pending, sent)
         IN  Window_dispatch(Tail(ls),
                 [h EXCEPT !.events = acc.events \o h.events,
                           !.net = acc.net \/ h.net,
                           !.ret = IF acc.ret # "none" THEN acc.ret ELSE h.ret],
                 id, sent)

\* the number of records the listeners ls enqueue on one signal
Window_tracked(ls) ==
    Len(SelectSeq(ls, LAMBDA l : l = "core"))
        * Len(DashgramSDK_trackAuto(isInitialized, CoreTracker_handleUnload))

\* the window fires pagehide or beforeunload (sig) and has listeners of the
\* SDK; sent is what navigator.sendBeacon returns, at most n events existing
PageHide(sig, sent, n) ==
    /\ listeners # << >>
    /\ nextId + Window_tracked(listeners) <= n + 1
    /\ LET w == Window_dispatch(listeners, NoCall(queue, calls, pendingRequests, << >>),
                                nextId, sent)
           ids == nextId .. (nextId + Window_tracked(listeners) - 1)
       IN  /\ queue' = w.queue
           /\ calls' = w.calls
           /\ pendingRequests' = w.pending
           /\ dropped' = dropped \cup ((Range(queue) \cup ids)
                                         \ (Range(w.queue) \cup Range(w.events)))
           /\ lastOp' = [Made("pagehide", << sig >>, w) EXCEPT
                             !.auto = IF "core" \in Range(listeners)
                                      THEN CoreTracker_handleUnload ELSE << >>]
    /\ nextId' = nextId + Window_tracked(listeners)
    /\ run' = 0
    /\ UNCHANGED << Config, Producers, isInitialized, isStarted, flushTimer, timers,
                    handlers, isOnline, asyncs, hist >>

PageHides == \E sig \in PageHideSignals, sent \in BOOLEAN : PageHide(sig, sent, MaxEvents)

PageHideSetTrackLevels == \E level \in {1, 2} : DashgramSDK_setTrackLevel(level, MaxEvents)

SdkInitsAt(levels) ==
    \E valid \in BOOLEAN, level \in levels, browser \in BOOLEAN, onLine \in BOOLEAN :
        DashgramSDK_init(valid, level, browser, onLine)

\* init with the default track level or with none
SdkInits == SdkInitsAt({0, 1})

\* init and setTrackLevel with the levels that start the core tracker alone or
\* with the interaction tracker
PageHideInits == SdkInitsAt({1, 2})

\* init with every track level
TrackerInits == SdkInitsAt(TrackLevels)

\* init with the deep tracker on or off
DeepInits == SdkInitsAt({2, 3})

\* init with the deep tracker on
ClickInits == SdkInitsAt({3})

Clicks == \E el \in Elements : Click(el, MaxEvents)

ClickTimers == \E el \in Elements : ClickTimer(el)

ClickTicks == \E d \in Ticks : Tick(d, MaxNow)

\* the times that pass between two operations on the session: around the
\* timeout
SessionTicks == {SESSION_TIMEOUT - 1, SESSION_TIMEOUT, SESSION_TIMEOUT + 1}

SessionTicking ==
    \E d \in SessionTicks : Tick(d, MaxSessionTicks * (SESSION_TIMEOUT + 1))

\* getScrollDepth(): some of the percentages 0 .. 100
Depths == {0, 10, 25, 40, 50, 60, 75, 90, 100}

Scrolls == \E depth \in Depths : Scroll(depth, MaxEvents)

SetTrackLevels == \E level \in TrackLevels :
                      DashgramSDK_setTrackLevel(level, MaxEvents)

Track == DashgramSDK_track(MaxEvents)

Start == StartUpTo(MaxHandlers)

NetStart == StartUpTo(MaxNetHandlers)

AddEvent == AddEventUpTo(MaxEvents)

NetAddEvent == AddEventUpTo(MaxNetEvents)

TimerFires == \E t \in timers : TimerFire(t)

Unloads == \E sig \in Signals, sent \in BOOLEAN : Unload(sig, sent)

Settles == \E r \in pendingRequests, resp \in Responses, raised \in BOOLEAN :
               Settle(r, resp, raised)

LifecycleSignals == \E sig \in Signals, hidden \in BOOLEAN, sent \in BOOLEAN :
                        LifecycleSignal(sig, hidden, sent)

DirectSends == \E events \in DirectBatches : DirectSend(events)

DirectBeacons == \E events \in DirectBatches, sent \in BOOLEAN :
                     DirectBeacon(events, sent)

(* ---------------------------- specifications --------------------------- *)
\* Spec: the whole pipeline, the scheduler's operations and the host's
\* connectivity events and fetch settlements, under every setting of disabled
\* and onError, on a host with navigator.sendBeacon that is online when the
\* Transport is constructed (the offline event takes it offline; a host
\* without navigator.sendBeacon is in TransportSpec and LifecycleSpec)
Init == InitWith({1, 2}, {2}, BOOLEAN, BOOLEAN, {TRUE}, {TRUE})

Next ==
    \/ NetStart
    \/ Stop
    \/ NetAddEvent
    \/ Flush
    \/ FlushAsync
    \/ TimerFires
    \/ Unloads
    \/ Online
    \/ Offline
    \/ Settles

Spec == Init /\ [][Next]_vars

\* TransportSpec: the Transport alone, its send and sendBeacon called
\* directly with empty and non-empty batches
TransportInit == InitWith({1}, {1}, BOOLEAN, BOOLEAN, BOOLEAN, BOOLEAN)

TransportNext ==
    \/ DirectSends
    \/ DirectBeacons
    \/ Online
    \/ Offline
    \/ Settles

TransportSpec == TransportInit /\ [][TransportNext]_vars

\* SchedulerSpec: the scheduler's operations on an enabled, online pipeline
\* whose requests are still in flight, under every batch size and capacity
SchedulerInit ==
    InitWith(BatchSizes, Capacities, {FALSE}, {FALSE}, {TRUE}, {TRUE})

SchedulerNext ==
    \/ Start
    \/ Stop
    \/ AddEvent
    \/ Flush
    \/ FlushAsync
    \/ TimerFires
    \/ Unloads

SchedulerSpec == SchedulerInit /\ [][SchedulerNext]_vars

\* OfflineSpec: the enabled pipeline, without error callback, while the host's
\* connectivity events take the transport offline and online again
OfflineInit == InitWith({1, 2}, {2}, {FALSE}, {FALSE}, {TRUE}, {TRUE})

OfflineNext ==
    \/ NetStart
    \/ NetAddEvent
    \/ Flush
    \/ FlushAsync
    \/ TimerFires
    \/ Unloads
    \/ Online
    \/ Offline
    \/ Settles

OfflineSpec == OfflineInit /\ [][OfflineNext]_vars

\* LifecycleSpec: the scheduler under the page's lifecycle signals, each told
\* from the others, on hosts with and without navigator.sendBeacon
LifecycleInit ==
    InitWith(BatchSizes, Capacities, {FALSE}, {FALSE}, BOOLEAN, {TRUE})

LifecycleNext ==
    \/ Start
    \/ Stop
    \/ AddEvent
    \/ LifecycleSignals

LifecycleSpec == LifecycleInit /\ [][LifecycleNext]_vars

\* TimerSpec: the scheduler with its timer as the only flush besides the
\* threshold, the requests it issues staying in flight
TimerInit ==
    InitWith(BatchSizes, Capacities, {FALSE}, {FALSE}, {TRUE}, {TRUE})

TimerNext ==
    \/ Start
    \/ Stop
    \/ AddEvent
    \/ TimerFires

TimerSpec == TimerInit /\ [][TimerNext]_vars

\* SdkSpec: the SDK driven through its public operations, with the host's
\* timer, lifecycle, connectivity events and fetch settlements
SdkInit == InitWith(BatchSizes, {2}, BOOLEAN, BOOLEAN, {TRUE}, {TRUE})

SdkNext ==
    \/ SdkInits
    \/ Track
    \/ DashgramSDK_shutdown
    \/ TimerFires
    \/ Unloads
    \/ Online
    \/ Offline
    \/ Settles

SdkSpec == SdkInit /\ [][SdkNext]_vars

\* TrackerSpec: the SDK's operations that start, restart and stop the
\* trackers, under every track level, on an enabled, online pipeline whose
\* requests are still in flight
TrackerInit == InitWith({2}, {2}, {FALSE}, {FALSE}, {TRUE}, {TRUE})

TrackerNext ==
    \/ TrackerInits
    \/ SetTrackLevels
    \/ Track
    \/ DashgramSDK_shutdown
    \/ TimerFires

TrackerSpec == TrackerInit /\ [][TrackerNext]_vars

\* PageHideSpec: the initialized SDK when the page goes away: the core
\* tracker's and the scheduler's listeners on the window, under init,
\* setTrackLevel, track and shutdown
PageHideInit == InitWith({2, 3}, {3}, {FALSE}, {FALSE}, {TRUE}, {TRUE})

PageHideNext ==
    \/ PageHideInits
    \/ PageHideSetTrackLevels
    \/ Track
    \/ PageHides
    \/ DashgramSDK_shutdown

PageHideSpec == PageHideInit /\ [][PageHideNext]_vars

\* ScrollSpec: the deep tracker's scroll handler on an initialized SDK
ScrollInit == InitWith({2}, {2}, {FALSE}, {FALSE}, {TRUE}, {TRUE})

ScrollNext ==
    \/ DeepInits
    \/ Scrolls
    \/ DashgramSDK_shutdown

ScrollSpec == ScrollInit /\ [][ScrollNext]_vars

\* ClickSpec: the deep tracker's click handler and its timers on an SDK
\* initialized at level 3, the timers running as soon as they are due
ClickInit == InitWith({2}, {2}, {FALSE}, {FALSE}, {TRUE}, {TRUE})

ClickNext ==
    \/ ClickInits
    \/ Clicks
    \/ ClickTimers
    \/ ClickTicks

ClickSpec == ClickInit /\ [][ClickNext]_vars

\* SessionSpec: a Session from its construction at time 0 (no stored session:
\* session 1, lastActivity 0), under the events the SDK builds, its reset()
\* and the passage of time
SessionInit == InitWith({2}, {2}, {FALSE}, {FALSE}, {TRUE}, {TRUE})

SessionNext ==
    \/ BuildEvent
    \/ SessionReset
    \/ SessionTicking

SessionSpec == SessionInit /\ [][SessionNext]_vars

\* QueueSpec: an EventQueue alone, under every sequence of its operations
QueueInit ==
    InitWith({1}, QueueCapacities, {FALSE}, {FALSE}, {TRUE}, {TRUE})

\* queue.enqueue(r)
QueueEnqueue(r) ==
    /\ Len(hist) < MaxHist
    /\ queue' = EventQueue_enqueue(queue, r, maxSize)
    /\ hist' = Append(hist, r)
    /\ lastOp' = Op("enqueue", << r >>, << >>, 0, FALSE, "none")
    /\ UNCHANGED << Config, Producers, isInitialized, isStarted, flushTimer, timers, handlers, isOnline,
                    pendingRequests, calls, asyncs, nextId, dropped, run >>

\* queue.flush(); lastOp keeps the records enqueued since the queue was last
\* emptied (arg) and what flush returned (result)
QueueDrain ==
    /\ queue' = EventQueue_flush(queue).queue
    /\ hist' = << >>
    /\ lastOp' = Op("drain", hist, EventQueue_flush(queue).events, 0, FALSE, "none")
    /\ UNCHANGED << Config, Producers, isInitialized, isStarted, flushTimer, timers, handlers, isOnline,
                    pendingRequests, calls, asyncs, nextId, dropped, run >>

\* queue.peek()
QueuePeek ==
    /\ lastOp' = Op("peek", << >>, EventQueue_peek(queue), 0, FALSE, "none")
    /\ UNCHANGED << Config, Producers, isInitialized, queue, isStarted, flushTimer, timers, handlers,
                    isOnline, pendingRequests, calls, asyncs, nextId, dropped,
                    run, hist >>

\* queue.clear()
QueueClear ==
    /\ queue' = EventQueue_clear(queue)
    /\ hist' = << >>
    /\ lastOp' = Op("clear", << >>, << >>, 0, FALSE, "none")
    /\ UNCHANGED << Config, Producers, isInitialized, isStarted, flushTimer, timers, handlers, isOnline,
                    pendingRequests, calls, asyncs, nextId, dropped, run >>

QueueEnqueues == \E r \in Records : QueueEnqueue(r)

QueueNext ==
    \/ QueueEnqueues
    \/ QueueDrain
    \/ QueuePeek
    \/ QueueClear

QueueSpec == QueueInit /\ [][QueueNext]_vars

\* RequestSpec: one request attempt, sendRequest applied to a batch whose
\* events JSON.stringify does or does not accept and to every answer of the host
RequestInit == InitWith({1}, {1}, {FALSE}, {FALSE}, {TRUE}, {TRUE})

\* sendRequest(events): the body is safeStringify({ events }), fetch is called
\* with it, and the answer resp decides what the promise settles with
SendRequest(circular, resp) ==
    /\ lastOp' = [Op("sendRequest", [circular |-> circular, resp |-> resp],
                     [body |-> safeStringify([events |-> << 1 >>, circular |-> circular]),
                      error |-> Transport_sendRequest_thrown(resp)],
                     0, TRUE, IF Transport_sendRequest(resp) = "none"
                              THEN "fulfilled" ELSE "rejected")
                    EXCEPT !.err = Transport_sendRequest(resp)]
    /\ UNCHANGED << Config, Producers, isInitialized, queue, isStarted, flushTimer, timers, handlers,
                    isOnline, pendingRequests, calls, asyncs, nextId, dropped,
                    run, hist >>

SendRequests == \E circular \in BOOLEAN, resp \in FullResponses :
                    SendRequest(circular, resp)

RequestNext == SendRequests

RequestSpec == RequestInit /\ [][RequestNext]_vars

(* ------------------------------- claims -------------------------------- *)
\* how often event e occurs in the batches handed to the transport
Handed(e) ==
    Cardinality(UNION { { << i, j >> : j \in { k \in DOMAIN calls[i].batch :
                                                  calls[i].batch[k] = e } } :
                        i \in DOMAIN calls })

\* C1 (SchedulerSpec): under every interleaving of addEvent, timer, threshold,
\* explicit flush, flushAsync and unload-path flush, every event passed to
\* addEvent is in at most one batch handed to the transport, at most once; an
\* event in no batch is still in the queue or was removed by the overflow rule,
\* and an event is never in two of these places.
C1_NoLossNoDuplicate ==
    \A e \in 1..(nextId - 1) :
        /\ Handed(e) <= 1
        /\ Handed(e) = 0 => (e \in Range(queue) \/ e \in dropped)
        /\ ~(e \in Range(queue) /\ e \in dropped)
        /\ Handed(e) = 1 => (e \notin Range(queue) /\ e \notin dropped)

\* an event was dropped by overflow, a batch went out by send and a later one
\* by sendBeacon
C1_Witness ==
    /\ dropped # {}
    /\ \E i, j \in DOMAIN calls :
           i < j /\ calls[i].op = "send" /\ calls[j].op = "sendBeacon"

\* C2 (QueueSpec): after any sequence of enqueue, flush, peek and clear on an
\* EventQueue of capacity maxSize the queue holds at most maxSize records.
C2_LengthBounded == Len(queue) <= maxSize

\* more records than the capacity were enqueued and the queue is full
C2_Witness ==
    /\ lastOp.name = "enqueue"
    /\ Len(hist) > maxSize
    /\ Len(queue) = maxSize

\* C3 (QueueSpec): after more than maxSize enqueue calls on an empty queue with
\* no drain in between, flush returns exactly the last maxSize records enqueued,
\* in their order; and enqueue always takes the newest record, at the tail.
C3_DrainReturnsLastN ==
    /\ (lastOp.name = "drain" /\ Len(lastOp.arg) > maxSize)
           => lastOp.result = LastN(lastOp.arg, maxSize)
    /\ lastOp.name = "enqueue"
           => (queue # << >> /\ queue[Len(queue)] = lastOp.arg[1])

\* the documented scenario: capacity 3, four records enqueued, the drain
\* returns the last three
C3_Witness ==
    /\ maxSize = 3
    /\ lastOp.name = "drain"
    /\ lastOp.arg = << 1, 2, 1, 2 >>
    /\ lastOp.result = << 2, 1, 2 >>
    /\ queue = << >>

\* C4 (SchedulerSpec): in every batch handed to transport.send or
\* transport.sendBeacon the events are in the order of their addEvent calls.
C4_BatchesInOrder ==
    \A i \in DOMAIN calls :
        \A j, k \in DOMAIN calls[i].batch :
            j < k => calls[i].batch[j] < calls[i].batch[k]

\* a batch of two events went out by sendBeacon after a batch went out by send
C4_Witness ==
    \E i, j \in DOMAIN calls :
        /\ i < j
        /\ calls[i].op = "send"
        /\ calls[j].op = "sendBeacon" /\ Len(calls[j].batch) >= 2

\* C5 (SchedulerSpec), as claimed: from an empty queue, the addEvent calls
\* before the batchSize-th make no transport call, and the batchSize-th makes
\* exactly one call of transport.send, inside addEvent, with all batchSize
\* events in order. (run counts the addEvent calls since the queue was last
\* drained.)
C5_ThresholdFlush ==
    [][ nextId' = nextId + 1 =>
          /\ run + 1 < batchSize => calls' = calls
          /\ run + 1 = batchSize =>
                calls' = Append(calls,
                    Call("send", [i \in 1..batchSize |-> nextId - batchSize + i]))
      ]_vars

\* C6 (SchedulerSpec): no flush path hands an empty batch to transport.send or
\* transport.sendBeacon; an operation that drained nothing, a timer fire
\* included, makes no transport call.
C6_NoEmptyBatch ==
    /\ \A i \in DOMAIN calls : calls[i].batch # << >>
    /\ (lastOp.name \in {"addEvent", "flush", "timer", "unload", "flushAsync"}
            /\ lastOp.result = << >>)
           => (lastOp.made = 0 /\ ~lastOp.net /\ lastOp.ret = "none")

\* the timer fired on an empty queue after a batch had gone out
C6_Witness ==
    /\ lastOp.name = "timer"
    /\ lastOp.result = << >>
    /\ lastOp.made = 0
    /\ calls # << >>

\* the scheduler operations that end in transport.send
SendPaths == {"addEvent", "flush", "timer", "flushAsync"}

\* C7 (Spec): while the transport is offline, a send of a non-empty batch
\* fulfils without a fetch, without a request in pendingRequests and without
\* the error callback; a sendBeacon of a non-empty batch, the SDK enabled and
\* navigator.sendBeacon present, still invokes navigator.sendBeacon.
C7_OfflineSendSkipsBeaconGoes ==
    /\ (lastOp.name \in SendPaths /\ lastOp.made = 1 /\ ~isOnline)
           => /\ ~lastOp.net
              /\ lastOp.ret = "fulfilled"
              /\ lastOp.cb = << >>
              /\ Len(calls) \notin pendingRequests
    /\ (lastOp.name = "unload" /\ lastOp.made = 1 /\ ~isOnline
            /\ ~disabled /\ hasBeacon)
           => lastOp.net

\* offline, enabled, an error callback configured: a flush handed a batch to
\* send, and earlier an unload handed one to sendBeacon
C7_Witness ==
    /\ ~isOnline /\ ~disabled /\ onError /\ hasBeacon
    /\ lastOp.name = "flush" /\ lastOp.made = 1 /\ lastOp.ret = "fulfilled"
    /\ Len(calls) = 2 /\ calls[1].op = "sendBeacon"
    /\ pendingRequests = {}

\* offline, enabled, navigator.sendBeacon present: an unload handed a batch over
C7_WitnessBeacon ==
    /\ ~isOnline /\ ~disabled /\ hasBeacon
    /\ lastOp.name = "unload" /\ lastOp.made = 1 /\ lastOp.net

\* C8 (TransportSpec): when the batch is empty or the SDK disabled, send
\* fulfils and sendBeacon returns true without fetch or navigator.sendBeacon
\* being invoked and with pendingRequests unchanged; with the SDK disabled no
\* operation invokes either and no request is ever pending.
C8_EmptyOrDisabledIsNoOp ==
    /\ [](disabled => (pendingRequests = {} /\ ~lastOp.net))
    /\ [][ (Len(calls') = Len(calls) + 1
              /\ (calls'[Len(calls')].batch = << >> \/ disabled))
           => /\ ~lastOp'.net
              /\ lastOp'.ret = IF calls'[Len(calls')].op = "send"
                               THEN "fulfilled" ELSE "true"
              /\ pendingRequests' = pendingRequests
         ]_vars

\* an empty batch was handed to send on an enabled, online transport with a
\* request in flight, and send fulfilled at once
C8_Witness ==
    /\ ~disabled /\ isOnline
    /\ lastOp.name = "send" /\ lastOp.arg = << >> /\ lastOp.ret = "fulfilled"
    /\ pendingRequests # {}

\* C9 (Spec), as claimed: no scheduler operation returns a rejected result;
\* the synchronous operations return, and no flushAsync promise is rejected.
C9_NeverRejects ==
    \A i \in DOMAIN asyncs : asyncs[i].state # "rejected"

\* C10 (Spec), as claimed: when the network attempt fails, the promise of send
\* rejects with the typed error, and the scheduler passes it on to nobody.
C10_Original ==
    /\ (lastOp.name = "settle" /\ lastOp.err # "none") => lastOp.ret = "rejected"
    /\ \A i \in DOMAIN asyncs : asyncs[i].state # "rejected"

\* C10 (Spec), amended: when the network attempt fails, send catches the typed
\* error: its promise fulfils, the error goes to the error callback exactly
\* when one is configured, and a flushAsync awaiting that send is not rejected.
C10_SendCatchesError ==
    /\ []((lastOp.name = "settle" /\ lastOp.err # "none")
            => /\ lastOp.ret = "fulfilled"
               /\ lastOp.cb = IF onError THEN << lastOp.err >> ELSE << >>)
    /\ [][ \A i \in DOMAIN asyncs :
             (asyncs[i].state = "sending" /\ asyncs[i].own \notin pendingRequests')
                 => asyncs'[i].state \in {"waiting", "resolved"}
         ]_vars

\* the request a flushAsync sent failed, the callback got the error and the
\* flushAsync resolved
C10_Witness ==
    /\ lastOp.name = "settle"
    /\ lastOp.err = "DashgramAPIError"
    /\ lastOp.cb = << "DashgramAPIError" >>
    /\ \E i \in DOMAIN asyncs :
           asyncs[i].state = "resolved" /\ << asyncs[i].own >> = lastOp.arg

\* C11 (Spec): for a send that issued a request, when the request fails and an
\* error callback is configured the callback is called exactly once, with a
\* typed error; when the request succeeds, or send returned without a request
\* (empty batch, disabled, offline), the callback is not called. The callback
\* is called only in the settlement of a request, which settles once.
C11_CallbackOncePerFailure ==
    /\ [](lastOp.name = "settle"
            => lastOp.cb = IF lastOp.err # "none" /\ onError
                           THEN << lastOp.err >> ELSE << >>)
    /\ [](\A i \in DOMAIN lastOp.cb : lastOp.cb[i] \in TypedErrors)
    /\ [](lastOp.name # "settle" => lastOp.cb = << >>)
    /\ [][ lastOp'.cb # << >>
             => /\ lastOp'.arg[1] \in pendingRequests
                /\ lastOp'.arg[1] \notin pendingRequests'
                /\ calls[lastOp'.arg[1]].op = "send"
         ]_vars

\* the second request failed with an error callback configured, the first call
\* being no longer (or never) pending
C11_Witness ==
    /\ onError
    /\ lastOp.name = "settle"
    /\ lastOp.err = "InvalidCredentialsError"
    /\ lastOp.cb = << "InvalidCredentialsError" >>
    /\ lastOp.arg = << 2 >>
    /\ 1 \notin pendingRequests

\* a request succeeded with an error callback configured
C11_WitnessSuccess ==
    /\ onError
    /\ lastOp.name = "settle"
    /\ lastOp.err = "none"
    /\ lastOp.cb = << >>

\* C12 (Spec): when the error callback raises, send still fulfils, so nothing
\* reaches the flush that issued the request (a flushAsync awaiting that send
\* goes on), the failed request leaves pendingRequests, and the pipeline is in
\* the state it is in when the callback returns: nothing else changes.
C12_CallbackExceptionCaught ==
    [][ (lastOp'.name = "settle" /\ lastOp'.raised)
          => /\ lastOp'.ret = "fulfilled"
             /\ pendingRequests' = pendingRequests \ {lastOp'.arg[1]}
             /\ \A i \in DOMAIN asyncs :
                    (asyncs[i].state = "sending" /\ << asyncs[i].own >> = lastOp'.arg)
                        => asyncs'[i].state \in {"waiting", "resolved"}
             /\ UNCHANGED << queue, isStarted, flushTimer, timers, handlers,
                             isOnline, calls, nextId, dropped, run >>
      ]_vars

\* the callback raised in the settlement of the request a flushAsync sent, and
\* the flushAsync resolved with nothing pending
C12_Witness ==
    /\ lastOp.name = "settle"
    /\ lastOp.raised
    /\ lastOp.cb = << "NetworkError" >>
    /\ pendingRequests = {}
    /\ \E i \in DOMAIN asyncs :
           asyncs[i].state = "resolved" /\ << asyncs[i].own >> = lastOp.arg

\* C13 (RequestSpec): the outcome of one request attempt is a total mapping of
\* the answer: status 403 gives InvalidCredentialsError; any other status
\* outside 200..299 gives DashgramAPIError with that status code and, as
\* detail, the body's details field, else (it being missing or empty) its
\* message field, else the status text; a status in 200..299 gives no error;
\* a fetch that throws gives NetworkError wrapping the cause. No other error
\* is produced.
C13_OutcomeClassified ==
    lastOp.name = "sendRequest" =>
        LET resp == lastOp.arg.resp
            e == lastOp.result.error
            ok == resp.status \in 200..299
        IN  /\ e.kind \in TypedErrors \cup {"none"}
            /\ resp.threw =>
                   /\ e.kind = "NetworkError"
                   /\ e.originalError.isError
                   /\ e.originalError.message = resp.cause.message
                   /\ resp.cause.isError => e.originalError = resp.cause
            /\ (~resp.threw /\ resp.status = 403) => e.kind = "InvalidCredentialsError"
            /\ (~resp.threw /\ resp.status # 403 /\ ~ok) =>
                   /\ e.kind = "DashgramAPIError"
                   /\ e.statusCode = resp.status
                   /\ e.details =
                          IF resp.body.parsable /\ resp.body.details \notin {Undefined, ""}
                          THEN resp.body.details
                          ELSE IF resp.body.parsable /\ resp.body.message \notin {Undefined, ""}
                          THEN resp.body.message
                          ELSE resp.statusText
            /\ (~resp.threw /\ ok) => e.kind = "none"
            /\ (e.kind = "none") = (lastOp.ret = "fulfilled")

\* a 404 whose body has a message and no details: the detail is the message
C13_Witness ==
    /\ lastOp.name = "sendRequest"
    /\ lastOp.arg.resp.status = 404
    /\ lastOp.arg.resp.body.parsable
    /\ lastOp.arg.resp.body.details = Undefined
    /\ lastOp.arg.resp.body.message = "message"
    /\ lastOp.result.error.kind = "DashgramAPIError"
    /\ lastOp.result.error.statusCode = 404
    /\ lastOp.result.error.details = "message"

\* a 403 with a body: InvalidCredentialsError
C13_WitnessForbidden ==
    /\ lastOp.name = "sendRequest"
    /\ lastOp.arg.resp.status = 403
    /\ lastOp.arg.resp.body.details = "details"
    /\ lastOp.result.error.kind = "InvalidCredentialsError"

\* C14 (RequestSpec), as claimed: when the batch cannot be serialized the
\* attempt ends with a NetworkError, and no request with a substitute body is
\* sent.
C14_SerializationFailureIsNetworkError ==
    (lastOp.name = "sendRequest" /\ lastOp.arg.circular)
        => /\ lastOp.err = "NetworkError"
           /\ ~lastOp.net

C16_NoBeaconReturnsFalse ==
    [][ (lastOp'.name = "unload" /\ lastOp'.result # << >>
           /\ ~disabled /\ ~hasBeacon)
          => /\ lastOp'.ret = "false"
             /\ ~lastOp'.net
             /\ lastOp'.result = queue
             /\ calls' = Append(calls, Call("sendBeacon", queue))
             /\ pendingRequests' = pendingRequests
             /\ queue' = << >>
             /\ \A e \in Range(queue) : e \notin dropped' /\ Handed(e)' = 1
      ]_vars

\* pagehide with two queued records, navigator.sendBeacon missing: sendBeacon
\* returned false and the records are gone
C16_Witness ==
    /\ ~disabled /\ ~hasBeacon
    /\ lastOp.name = "unload"
    /\ lastOp.arg = << "pagehide" >>
    /\ lastOp.result = << 1, 2 >>
    /\ lastOp.ret = "false"
    /\ ~lastOp.net
    /\ queue = << >>
    /\ calls = << Call("sendBeacon", << 1, 2 >>) >>

\* C17 (LifecycleSpec): on visibilitychange with the page hidden, on pagehide
\* and on beforeunload the registered handler drains the queue and hands the
\* drained batch to transport.sendBeacon in the same callback; it never calls
\* transport.send, so no request becomes pending. Only a visibilitychange with
\* the page not hidden leaves the queue alone.
C17_UnloadUsesBeacon ==
    /\ [](lastOp.name = "signal" => lastOp.arg = << "visibilitychange" >>)
    /\ [][ lastOp'.name = "unload"
             => /\ lastOp'.arg[1] \in Signals
                /\ lastOp'.result = queue
                /\ queue' = << >>
                /\ calls' = IF queue # << >>
                            THEN Append(calls, Call("sendBeacon", queue))
                            ELSE calls
                /\ pendingRequests' = pendingRequests
         ]_vars

\* pagehide with two queued records: one sendBeacon call with both
C17_Witness ==
    /\ hasBeacon
    /\ lastOp.name = "unload"
    /\ lastOp.arg = << "pagehide" >>
    /\ lastOp.result = << 1, 2 >>
    /\ calls = << Call("sendBeacon", << 1, 2 >>) >>
    /\ queue = << >>

\* the same on visibilitychange (hidden) and on beforeunload
C17_WitnessHidden ==
    /\ lastOp.name = "unload"
    /\ lastOp.arg = << "visibilitychange" >>
    /\ lastOp.made = 1 /\ queue = << >>

C17_WitnessBeforeUnload ==
    /\ lastOp.name = "unload"
    /\ lastOp.arg = << "beforeunload" >>
    /\ lastOp.made = 1 /\ queue = << >>

\* C18 (TimerSpec): once stop() has run, also while the send a timer-triggered
\* flush issued is still pending, no timer is armed and no timer-triggered
\* flush occurs until start() runs again; a timer-triggered flush re-arms the
\* timer exactly when the scheduler is still started, and at most one timer is
\* armed.
C18_StopDisarmsTimer ==
    /\ [](~isStarted => (timers = {} /\ flushTimer = 0))
    /\ [](timers \subseteq {flushTimer})
    /\ [][ lastOp'.name = "timer"
             => /\ isStarted
                /\ (timers' # {}) = isStarted'
                /\ timers' = {flushTimer'}
         ]_vars
    /\ [][ lastOp'.name = "stop" => (timers' = {} /\ flushTimer' = 0 /\ ~isStarted') ]_vars

\* stop() ran while the request of a timer-triggered flush is pending: the
\* batch of one event is below the threshold of three, so only the timer can
\* have sent it
C18_Witness ==
    /\ batchSize = 3
    /\ lastOp.name = "stop"
    /\ calls = << Call("send", << 1 >>) >>
    /\ pendingRequests = {1}
    /\ ~isStarted /\ timers = {} /\ flushTimer = 0

\* a timer-triggered flush issued a request and re-armed the timer
C18_WitnessRearmed ==
    /\ lastOp.name = "timer"
    /\ lastOp.ret = "pending"
    /\ isStarted /\ timers = {flushTimer}

\* C19 (SdkSpec), as claimed: a track call made before init() has succeeded,
\* or after shutdown(), is rejected with a DashgramConfigurationError and
\* enqueues no event.
C19_TrackBeforeInitRejected ==
    [][ (lastOp'.name = "track" /\ ~isInitialized)
          => /\ lastOp'.err = "DashgramConfigurationError"
             /\ queue' = queue
             /\ calls' = calls
      ]_vars

\* C20 (SdkSpec): once the SDK is initialized, track returns without raising
\* and without waiting for the send it may start (the promise of send is
\* pending, or fulfilled at once, when track returns), whether online or
\* offline, disabled or not, the queue full or not; and the later settlement
\* of that send, a failure included, raises nothing either.
C20_TrackNeverRaises ==
    /\ [][ (lastOp'.name = "track" /\ isInitialized)
             => /\ lastOp'.err = "none"
                /\ lastOp'.ret \in {"none", "pending", "fulfilled"}
                /\ nextId' = nextId + 1
                /\ nextId \in Range(queue') \/ nextId \in Range(lastOp'.result)
         ]_vars
    /\ [](lastOp.name = "settle" => lastOp.ret = "fulfilled")

\* disabled and offline, the queue at its capacity: track returned, the oldest
\* event dropped
C20_Witness ==
    /\ isInitialized /\ disabled /\ ~isOnline
    /\ lastOp.name = "track" /\ lastOp.err = "none"
    /\ Len(queue) = maxSize
    /\ dropped # {}

\* the request a track call started has failed
C20_WitnessFailure ==
    /\ isInitialized
    /\ lastOp.name = "settle" /\ lastOp.err = "NetworkError"
    /\ calls = << Call("send", << 1 >>) >>
    /\ batchSize = 1

\* C21 (TrackerSpec): shutdown() on an initialized SDK leaves every tracker
\* inactive, hands the whole queue to the transport in one send (none when the
\* queue is empty), leaves the queue empty, the scheduler stopped with no timer
\* armed and the SDK uninitialized; shutdown() on an uninitialized SDK changes
\* nothing.
C21_ShutdownStopsFlushesStops ==
    [][lastOp'.name = "shutdown" =>
          IF isInitialized
          THEN /\ \A k \in Levels : ~isActive'[k]
               /\ calls' = IF queue # << >>
                           THEN Append(calls, Call("send", queue)) ELSE calls
               /\ queue' = << >>
               /\ ~isStarted'
               /\ flushTimer' = 0
               /\ timers' = {}
               /\ ~isInitialized'
          ELSE UNCHANGED << Config, Producers, isInitialized, queue, isStarted,
                            flushTimer, timers, handlers, isOnline,
                            pendingRequests, calls, asyncs, nextId, dropped,
                            run, hist >>]_vars

\* an SDK at track level 3 was shut down with one event queued
C21_Witness ==
    /\ lastOp.name = "shutdown" /\ lastOp.result = << 1 >> /\ lastOp.made = 1
    /\ trackLevel = 3
    /\ calls = << Call("send", << 1 >>) >>
    /\ ~isInitialized /\ queue = << >> /\ timers = {}

\* shutdown() was called on an SDK shut down before, its batch still sent
C21_WitnessUninitialized ==
    /\ lastOp.name = "shutdown" /\ lastOp.made = 0
    /\ ~isInitialized /\ calls # << >>

\* C22 (Spec): a flushAsync() call drains the whole queue into exactly one
\* transport.send call (none for an empty queue); it goes on to
\* transport.flush(), and completes, only once the request of that send has
\* settled; no event is in two calls or both queued and sent, and a settlement
\* leaves the queue, with the events added after the drain, as it is.
C22_FlushAsyncAwaitsItsSend ==
    /\ [](\A i \in DOMAIN asyncs :
              /\ asyncs[i].state # "sending" => asyncs[i].own \notin pendingRequests
              /\ asyncs[i].state = "sending" => asyncs[i].waitOn = {})
    /\ [](\A e \in 1 .. MaxEvents :
              Cardinality({i \in DOMAIN calls : e \in Range(calls[i].batch)})
                  + (IF e \in Range(queue) THEN 1 ELSE 0) <= 1)
    /\ [][/\ lastOp'.name = "flushAsync" =>
                /\ queue' = << >>
                /\ calls' = IF queue # << >>
                            THEN Append(calls, Call("send", queue)) ELSE calls
          /\ lastOp'.name = "settle" => queue' = queue /\ calls' = calls]_vars

\* flushAsync() drained event 1, event 2 was added while the send was in
\* flight, the send settled and flushAsync() completed: event 2 is still queued
C22_Witness ==
    /\ Len(asyncs) = 1 /\ asyncs[1].state = "resolved" /\ asyncs[1].own = 1
    /\ calls = << Call("send", << 1 >>) >>
    /\ queue = << 2 >>
    /\ pendingRequests = {}

\* C23 (TrackerSpec): a successful init() enqueues the app_open event the core
\* tracker tracks at start-up: the event is in the queue (or in the batch its
\* enqueue flushed) when init() returns.
C23_AppOpenEnqueuedAtInit ==
    [][(lastOp'.name = "sdkInit" /\ ~isInitialized /\ isInitialized') =>
          /\ Tracked(lastOp', "app_open")
          /\ nextId' > nextId
          /\ nextId \in Range(queue') \cup Range(lastOp'.result)]_vars

\* what init() does with it: the core tracker tracked app_open, marked it
\* tracked and is active, and nothing was enqueued
C23_AppOpenLost ==
    [][(lastOp'.name = "sdkInit" /\ ~isInitialized /\ isInitialized') =>
          /\ Tracked(lastOp', "app_open")
          /\ hasTrackedAppOpen' /\ isActive'[1]
          /\ nextId' = nextId /\ queue' = << >>
          /\ lastOp'.made = 0]_vars

\* an SDK initialized at level 1 whose timer fired on the empty queue
C23_WitnessLost ==
    /\ isInitialized /\ trackLevel = 1 /\ hasTrackedAppOpen
    /\ lastOp.name = "timer" /\ lastOp.made = 0
    /\ nextId = 1 /\ calls = << >>

\* C24 (TrackerSpec): while the SDK is initialized, after init and after any
\* sequence of setTrackLevel calls, the configured level L is 1, 2 or 3 and the
\* tracker of level k is active if and only if k <= L; a successful
\* setTrackLevel leaves the SDK initialized.
C24_ActiveIffLevelReached ==
    /\ [](isInitialized =>
              /\ trackLevel \in Levels
              /\ \A k \in Levels : isActive[k] <=> k <= trackLevel)
    /\ [][(lastOp'.name = "setTrackLevel" /\ lastOp'.err = "none") =>
              isInitialized']_vars

\* the level was lowered to 1 after the interaction tracker had run at a
\* higher one: only the core tracker is active
C24_Witness ==
    /\ isInitialized /\ lastOp.name = "setTrackLevel" /\ lastOp.err = "none"
    /\ trackLevel = 1 /\ lastPath = CurrentPath
    /\ isActive = [k \in Levels |-> k = 1]

\* the level was raised from 1 to 3: the interaction tracker started for the
\* first time and every tracker is active
C24_WitnessRaised ==
    /\ isInitialized /\ lastOp.name = "setTrackLevel"
    /\ lastOp.arg = << 3 >> /\ Tracked(lastOp, "screen_view")
    /\ trackLevel = 3
    /\ isActive = [k \in Levels |-> TRUE]

\* C25 (TrackerSpec): setTrackLevel called with a level outside {1, 2, 3}
\* raises DashgramConfigurationError and leaves the configured level and the
\* active state of every tracker unchanged.
C25_InvalidLevelRejected ==
    [][(lastOp'.name = "setTrackLevel" /\ lastOp'.arg[1] \notin {1, 2, 3}) =>
          /\ lastOp'.err = "DashgramConfigurationError"
          /\ UNCHANGED << trackLevel, isActive >>]_vars

\* the part that holds: on an initialized SDK the call raises
\* DashgramConfigurationError, on an uninitialized one the Error of
\* ensureInitialized, and in both nothing but the record of the call changes
C25_InvalidLevelChangesNothing ==
    [][(lastOp'.name = "setTrackLevel" /\ lastOp'.arg[1] \notin {1, 2, 3}) =>
          /\ lastOp'.err = IF isInitialized THEN "DashgramConfigurationError"
                           ELSE "Error"
          /\ UNCHANGED << Config, Producers, isInitialized, queue, isStarted,
                          flushTimer, timers, handlers, isOnline,
                          pendingRequests, calls, asyncs, nextId, dropped,
                          run, hist >>]_vars

\* setTrackLevel(4) was refused on an SDK running at level 2
C25_WitnessInitialized ==
    /\ lastOp.name = "setTrackLevel" /\ lastOp.arg = << 4 >>
    /\ lastOp.err = "DashgramConfigurationError"
    /\ isInitialized /\ trackLevel = 2
    /\ isActive = [k \in Levels |-> k <= 2]

\* setTrackLevel(0) was called before init()
C25_WitnessUninitialized ==
    /\ lastOp.name = "setTrackLevel" /\ lastOp.arg = << 0 >>
    /\ lastOp.err = "Error"
    /\ ~isInitialized /\ trackLevel = 0

\* the largest of the milestones 25, 50, 75, 100 that the depth d has reached,
\* 0 below 25
C26_Reached(d) ==
    LET below == {i \in DOMAIN Milestones : Milestones[i] <= d}
    IN  IF below = {} THEN 0
        ELSE Milestones[CHOOSE i \in below : \A j \in below : j <= i]

\* C26 (ScrollSpec): when the maximum scroll depth rises to d, the scroll_depth
\* event tracked carries the milestone d has reached: 25, 50, 75 or 100.
C26_MilestoneReached ==
    [][(lastOp'.name = "scroll" /\ Tracked(lastOp', "scroll_depth")) =>
          lastOp'.auto[1].properties[1] = C26_Reached(maxScrollDepth')]_vars

\* what the handler does: every rise of the maximum to 25 or above tracks one
\* scroll_depth event, whose depth is 25 and whose max_depth is the maximum
C26_AlwaysFirstMilestone ==
    [][lastOp'.name = "scroll" =>
          IF maxScrollDepth' > maxScrollDepth /\ maxScrollDepth' >= 25
          THEN lastOp'.auto = << AutoEvent("scroll_depth",
                                           << 25, maxScrollDepth' >>) >>
          ELSE lastOp'.auto = << >>]_vars

\* the page was scrolled to the bottom: the event tracked carries depth 25
C26_WitnessBottom ==
    /\ lastOp.name = "scroll" /\ lastOp.arg = << 100 >>
    /\ lastOp.auto = << AutoEvent("scroll_depth", << 25, 100 >>) >>
    /\ maxScrollDepth = 100 /\ 1 \in Range(queue)

\* C27 (ClickSpec): a rage_click is tracked for an element only when its last
\* five clicks fell within 2 seconds.
C27_RageClickWithinWindow ==
    [][(lastOp'.name = "click" /\ Tracked(lastOp', "rage_click")) =>
          /\ Len(lastOp'.arg) >= RAGE_THRESHOLD
          /\ lastOp'.arg[Len(lastOp'.arg)]
                 - lastOp'.arg[Len(lastOp'.arg) - RAGE_THRESHOLD + 1]
                 <= RAGE_TIMEOUT]_vars

\* what the handler does: a rage_click is tracked at the fifth click of a run
\* of clicks on one element in which each click comes less than 2 seconds
\* after the one before it, however long the run lasts
C27_RageClickSlidingWindow ==
    [][lastOp'.name = "click" =>
          LET ts == lastOp'.arg
          IN  /\ \A i \in 2 .. Len(ts) : ts[i] - ts[i - 1] < RAGE_TIMEOUT
              /\ Tracked(lastOp', "rage_click") <=> Len(ts) = RAGE_THRESHOLD]_vars

\* five clicks on the button one second apart, spread over four seconds,
\* tracked a rage_click
C27_WitnessSpread ==
    /\ lastOp.name = "click" /\ lastOp.arg = << 0, 1000, 2000, 3000, 4000 >>
    /\ lastOp.auto = << AutoEvent("rage_click", << 5 >>) >>
    /\ clickTracker["button"] = NoEntry

C28_WitnessExpired ==
    /\ lastOp.name = "buildEvent" /\ lastOp.arg = << SESSION_TIMEOUT + 1 >>
    /\ lastOp.result = << 2 >> /\ sessionId = 2

\* C29 (QueueSpec): a drain returns the contents and leaves the queue empty;
\* on an empty queue it returns the empty sequence; a drain that follows a
\* drain with no enqueue in between returns the empty sequence.
C29_DrainEmptiesQueue ==
    /\ [](lastOp.name = "drain" => queue = << >>)
    /\ [][lastOp'.name = "drain" =>
              /\ lastOp'.result = queue
              /\ queue' = << >>
              /\ queue = << >> => lastOp'.result = << >>
              /\ lastOp.name = "drain" => lastOp'.result = << >>]_vars

\* a drain of the empty queue, nothing having been enqueued since the queue
\* was last emptied, returned the empty sequence
C29_Witness ==
    /\ lastOp.name = "drain" /\ lastOp.arg = << >> /\ lastOp.result = << >>
    /\ queue = << >>

\* a drain returned two records and left the queue empty
C29_WitnessContents ==
    /\ lastOp.name = "drain" /\ Len(lastOp.result) = 2
    /\ queue = << >>

\* C30 (Spec): transport.flush(), awaited by a flushAsync call, completes only
\* when every request that was pending at its call has settled, whether the
\* requests succeed or fail.
C30_FlushWaitsForAllPending ==
    [][\A i \in DOMAIN asyncs :
           (asyncs[i].state = "waiting" /\ asyncs'[i].state # "waiting") =>
               asyncs[i].waitOn \cap pendingRequests' = {}]_vars

\* what flush() does: it is fulfilled only when every request it waited on has
\* settled, and it is rejected at the first of them that fails, whatever is
\* still in flight; it waits on requests only, never on a beacon
C30_FlushRejectsAtFirstFailure ==
    /\ [](\A i \in DOMAIN asyncs :
              asyncs[i].waitOn \subseteq
                  {r \in DOMAIN calls : calls[r].op = "send"})
    /\ [][\A i \in DOMAIN asyncs :
              asyncs[i].state = "waiting" =>
                  /\ asyncs'[i].state = "resolved" =>
                         asyncs[i].waitOn \cap pendingRequests' = {}
                  /\ asyncs'[i].state = "rejected" =>
                         /\ lastOp'.name = "settle" /\ lastOp'.err # "none"
                         /\ lastOp'.arg[1] \in asyncs[i].waitOn]_vars

\* flush() waited on the requests 1 and 2; request 1 failed and the flushAsync
\* call was rejected while request 2 is still in flight
C30_WitnessEarly ==
    /\ Len(asyncs) = 1 /\ asyncs[1].state = "rejected"
    /\ lastOp.name = "settle" /\ lastOp.arg = << 1 >> /\ lastOp.err # "none"
    /\ pendingRequests = {2}

\* C31 (TransportSpec): the pending request set holds only requests that send
\* issued for a non-empty batch; a send adds its request exactly when it issues
\* one (batch non-empty, SDK enabled, transport online); the settlement of a
\* request removes it, whether the request succeeded or failed and whether the
\* error callback raised; no other step, a beacon or a connectivity event,
\* changes the set.
C31_PendingOnlyDuringAttempt ==
    /\ [](pendingRequests \subseteq
              {i \in DOMAIN calls : calls[i].op = "send" /\ calls[i].batch # << >>})
    /\ [][/\ lastOp'.name = "settle" =>
                /\ lastOp'.arg[1] \in pendingRequests
                /\ pendingRequests' = pendingRequests \ {lastOp'.arg[1]}
          /\ lastOp'.name = "send" =>
                /\ lastOp'.net <=> (lastOp'.arg # << >> /\ ~disabled /\ isOnline)
                /\ Len(calls') \notin pendingRequests
                /\ pendingRequests' = IF lastOp'.net
                                      THEN pendingRequests \cup {Len(calls')}
                                      ELSE pendingRequests
          /\ lastOp'.name \notin {"settle", "send"} =>
                pendingRequests' = pendingRequests]_vars

\* the only request failed, the error callback raised, and the set is empty
C31_Witness ==
    /\ lastOp.name = "settle" /\ lastOp.err # "none" /\ lastOp.raised
    /\ calls = << Call("send", << 1 >>) >>
    /\ pendingRequests = {}

\* a beacon was sent while a request was in flight: the set holds the request
C31_WitnessBeacon ==
    /\ lastOp.name = "sendBeacon" /\ lastOp.net
    /\ calls = << Call("send", << 1 >>), Call("sendBeacon", << 1 >>) >>
    /\ pendingRequests = {1}

\* C32 (SchedulerSpec): start() on a started scheduler and stop() on a stopped
\* one change nothing: no timer is armed or cleared, no listener is registered,
\* and the queue and the transport are left alone.
C32_StartStopReentrant ==
    [][((lastOp'.name = "start" /\ isStarted)
            \/ (lastOp'.name = "stop" /\ ~isStarted)) =>
          UNCHANGED << Config, Producers, isInitialized, queue, isStarted,
                       flushTimer, timers, handlers, isOnline, pendingRequests,
                       calls, asyncs, nextId, dropped, run, hist >>]_vars

\* start() was called on a scheduler that was started already, with one
\* timer armed and the listeners registered once
C32_Witness ==
    /\ lastOp.name = "start" /\ lastOp.arg = << 1 >>
    /\ isStarted /\ handlers = 1 /\ Cardinality(timers) = 1

\* stop() was called on a scheduler that was never started
C32_WitnessStopped ==
    /\ lastOp.name = "stop" /\ handlers = 0
    /\ ~isStarted /\ timers = {} /\ flushTimer = 0

\* C33 (SchedulerSpec): stop() marks the scheduler stopped and clears the
\* armed timer, and nothing else: the queue, the pending requests, the calls
\* made of the transport and the registered listeners are as before.
C33_StopOnlyDisarms ==
    [][lastOp'.name = "stop" =>
          /\ ~isStarted'
          /\ flushTimer' = 0
          /\ timers' = timers \ {flushTimer}
          /\ UNCHANGED << Config, Producers, isInitialized, queue, handlers,
                          isOnline, pendingRequests, calls, asyncs, nextId,
                          dropped, run, hist >>]_vars

\* stop() was called with an event queued and a request in flight: both are
\* still there
C33_Witness ==
    /\ lastOp.name = "stop" /\ ~isStarted /\ timers = {}
    /\ queue = << 2 >>
    /\ calls = << Call("send", << 1 >>) >>
    /\ pendingRequests = {1}

\* C34 (LifecycleSpec): a lifecycle signal that reaches handleUnload
\* (visibilitychange to hidden, pagehide, beforeunload) empties the queue and
\* makes one sendBeacon call with the whole queue, none when the queue is
\* empty, however many times start() registered the listeners; so a signal
\* that follows a signal makes no transport call.
C34_SignalsIdempotent ==
    [][lastOp'.name = "unload" =>
          /\ queue' = << >>
          /\ calls' = IF queue # << >>
                      THEN Append(calls, Call("sendBeacon", queue)) ELSE calls
          /\ lastOp.name = "unload" => calls' = calls]_vars

\* with the listeners registered twice, pagehide followed the signal that sent
\* the only event in a beacon, and made no call
C34_Witness ==
    /\ lastOp.name = "unload" /\ lastOp.arg = << "pagehide" >> /\ lastOp.made = 0
    /\ handlers = 2 /\ nextId = 2
    /\ calls = << Call("sendBeacon", << 1 >>) >>
    /\ queue = << >>

\* with the listeners registered twice, a signal sent two queued events in
\* one beacon
C34_WitnessFirst ==
    /\ lastOp.name = "unload" /\ lastOp.made = 1 /\ handlers = 2
    /\ calls = << Call("sendBeacon", << 1, 2 >>) >>

\* an init() call whose Config constructor runs (the SDK is not initialized,
\* the host is a browser) on a user config that validate() rejects
C35_Rejected ==
    /\ lastOp'.name = "sdkInit"
    /\ ~isInitialized
    /\ lastOp'.arg[3] = 1
    /\ (lastOp'.arg[2] = 0 \/ lastOp'.arg[1] \notin {1, 2, 3})

\* C35: init() with a configuration that validation rejects (no projectId, or
\* a track level outside {1,2,3}) raises a ConfigurationError and leaves the
\* SDK uninitialized, with no tracker started and no flush timer armed and
\* nothing else changed; track() on the uninitialized SDK is rejected and
\* enqueues nothing; init() with a valid configuration on the uninitialized
\* SDK succeeds, also right after a rejected one.
C35_RejectedInitLeavesUninitialized ==
    /\ [][C35_Rejected =>
             /\ lastOp'.err = "DashgramConfigurationError"
             /\ ~isInitialized'
             /\ \A k \in Levels : ~isActive'[k]
             /\ ~isStarted' /\ flushTimer' = 0 /\ timers' = {}
             /\ UNCHANGED << Config, Producers, queue, calls, pendingRequests,
                             handlers, nextId >>]_vars
    /\ [][(lastOp'.name = "track" /\ ~isInitialized) =>
             /\ lastOp'.err # "none"
             /\ UNCHANGED << queue, calls, isInitialized >>]_vars
    /\ [][(/\ lastOp'.name = "sdkInit"
           /\ ~isInitialized
           /\ lastOp'.arg[3] = 1
           /\ lastOp'.arg[2] = 1
           /\ lastOp'.arg[1] \in {1, 2, 3}) =>
             /\ lastOp'.err = "none"
             /\ isInitialized'
             /\ isStarted' /\ Cardinality(timers') = 1
             /\ isActive'[1]]_vars

\* an init() with a track level out of range has just been rejected
C35_Witness ==
    /\ lastOp.name = "sdkInit"
    /\ lastOp.err = "DashgramConfigurationError"
    /\ lastOp.arg[2] = 1
    /\ lastOp.arg[1] \notin {1, 2, 3}
    /\ ~isInitialized

\* an init() without projectId has just been rejected on an SDK that was
\* initialized and shut down before
C35_WitnessAfterShutdown ==
    /\ lastOp.name = "sdkInit"
    /\ lastOp.err = "DashgramConfigurationError"
    /\ lastOp.arg[2] = 0
    /\ calls # << >>
    /\ ~isInitialized

\* C36: at most one flush timer is armed, between callbacks a timer is armed
\* exactly when the scheduler is started (and it is the one flushTimer names),
\* and while the SDK is not initialized no timer is armed, whatever init()
\* and shutdown() calls came before.
C36_OneTimerIffStarted ==
    /\ Cardinality(timers) <= 1
    /\ timers # {} <=> isStarted
    /\ isStarted => timers = {flushTimer}
    /\ ~isInitialized => timers = {}

\* the same for the scheduler on its own, under start, stop, addEvent, flush,
\* flushAsync, the timer callback and the unload handlers
C36_SchedulerOneTimer ==
    /\ Cardinality(timers) <= 1
    /\ timers # {} <=> isStarted
    /\ isStarted => timers = {flushTimer}

\* a timer callback has run on the initialized SDK and armed the next timer
C36_Witness ==
    /\ lastOp.name = "timer"
    /\ isInitialized
    /\ isStarted
    /\ Cardinality(timers) = 1

\* shutdown() after a timer callback and a second init(): no timer is left
C36_WitnessShutdown ==
    /\ lastOp.name = "shutdown"
    /\ ~isInitialized
    /\ calls # << >>
    /\ flushTimer = 0
    /\ timers = {}

\* start() on the started scheduler left its one timer armed
C36_WitnessRestart ==
    /\ lastOp.name = "start"
    /\ lastOp.arg = << 1 >>
    /\ Cardinality(timers) = 1

\* C37: when 1 <= batchSize <= the capacity the scheduler gives its queue, the
\* queue holds fewer than batchSize records after every addEvent (and between
\* all other operations), and the overflow shift of enqueue has never removed
\* a record.
C37_ThresholdBeforeOverflow ==
    (1 <= batchSize /\ batchSize <= maxSize) =>
        /\ Len(queue) < batchSize
        /\ dropped = {}

\* the third addEvent has returned under batchSize = capacity = 2: the second
\* one drained the queue at the threshold, nothing was shifted out
C37_Witness ==
    /\ lastOp.name = "addEvent"
    /\ batchSize = 2
    /\ maxSize = 2
    /\ nextId = 4
    /\ Len(queue) = 1
    /\ dropped = {}

\* with batchSize above the capacity the overflow shift does remove a record
C37_WitnessAbove ==
    /\ lastOp.name = "addEvent"
    /\ batchSize > maxSize
    /\ dropped # {}

\* the records of the batches handed to the transport so far
C38_Handed == UNION {Range(calls[i].batch) : i \in 1 .. Len(calls)}

\* a step of the timer callback, of the threshold of addEvent or of an
\* explicit flush that drained a non-empty batch
C38_Drains == lastOp'.name \in SendPaths /\ lastOp'.result # << >>

\* a step of the timer callback or of an explicit flush on a queue that holds
\* records, or of an addEvent whose record brings the queue to batchSize
C38_Due ==
    \/ lastOp'.name \in {"flush", "timer", "flushAsync"} /\ queue # << >>
    \/ /\ lastOp'.name = "addEvent"
       /\ (IF Len(queue) + 1 > maxSize THEN maxSize ELSE Len(queue) + 1) >= batchSize

\* C38 as stated: only records enqueued and flushed after connectivity is
\* restored reach the network; so the first flush after an online notification
\* hands the request primitive no record that was in the queue when the
\* notification came (such a record was enqueued before it).
C38_Original ==
    [][(lastOp.name = "online" /\ C38_Drains /\ lastOp'.net) =>
           Range(lastOp'.result) \cap Range(queue) = {}]_vars

\* C38, amended: a batch drained by a timer, a threshold or an explicit flush
\* while the transport is offline is removed from the queue and handed to
\* send, which issues no request for it; a record handed to the transport
\* never returns to the queue and is in no other batch, and the online
\* notification changes only the flag, so the batch is not sent later; a
\* request is issued only by a drain made while online, for exactly the
\* records that drain removed, whenever they were enqueued.
C38_OfflineDrainDiscards ==
    /\ [](C38_Handed \cap Range(queue) = {})
    /\ [](\A i, j \in 1 .. Len(calls) :
             i # j => Range(calls[i].batch) \cap Range(calls[j].batch) = {})
    /\ [][(C38_Due /\ ~isOnline) =>
             /\ C38_Drains
             /\ queue' = << >>
             /\ calls' = Append(calls, Call("send", lastOp'.result))
             /\ ~lastOp'.net
             /\ pendingRequests' = pendingRequests]_vars
    /\ [][lastOp'.name \in {"online", "offline"} =>
             UNCHANGED << queue, calls, pendingRequests >>]_vars
    /\ [][pendingRequests' \ pendingRequests # {} =>
             /\ isOnline
             /\ C38_Drains
             /\ pendingRequests' = pendingRequests \cup {Len(calls')}
             /\ calls' = Append(calls, Call("send", lastOp'.result))
             /\ Range(lastOp'.result) \subseteq Range(queue) \cup {nextId}]_vars
    /\ [][(C38_Drains /\ isOnline /\ ~disabled) =>
             /\ lastOp'.net
             /\ Len(calls') \in pendingRequests'
             /\ calls'[Len(calls')].batch = lastOp'.result]_vars

\* offline, the second drain has handed its one record to send, which issued
\* no request for it; the queue is empty
C38_Witness ==
    /\ ~isOnline /\ ~disabled
    /\ lastOp.name \in SendPaths
    /\ ~lastOp.net
    /\ Len(lastOp.result) = 1
    /\ queue = << >>
    /\ Len(calls) = 2
    /\ calls[2].batch = lastOp.result
    /\ 2 \notin pendingRequests

\* online again after a batch was discarded offline: the next drain issues a
\* request for its own records only
C38_WitnessRestored ==
    /\ isOnline /\ ~disabled
    /\ lastOp.name \in SendPaths
    /\ lastOp.net
    /\ Len(calls) = 2
    /\ 1 \notin pendingRequests
    /\ 2 \in pendingRequests
    /\ calls[1].op = "send"
    /\ calls[1].batch # << >>
    /\ hist = << >>

\* C39: stop() disables only the timer-driven flushes: it clears the timer and
\* leaves the queue and the registered listeners as they are; on the stopped
\* scheduler addEvent still enqueues and hands the queue to transport.send
\* when it reaches batchSize, and a lifecycle signal still drains a non-empty
\* queue into one sendBeacon call.
C39_StopKeepsThresholdAndHooks ==
    /\ [](~isStarted => timers = {})
    /\ [][lastOp'.name = "stop" =>
             /\ ~isStarted' /\ flushTimer' = 0
             /\ UNCHANGED << queue, handlers, calls, pendingRequests >>]_vars
    /\ [][(~isStarted /\ lastOp'.name = "addEvent") =>
             LET q1 == EventQueue_enqueue(queue, nextId, maxSize)
             IN  IF Len(q1) >= batchSize
                 THEN /\ queue' = << >>
                      /\ calls' = Append(calls, Call("send", q1))
                      /\ lastOp'.net
                 ELSE /\ queue' = q1
                      /\ calls' = calls]_vars
    /\ [][(~isStarted /\ lastOp'.name = "unload" /\ queue # << >>) =>
             /\ queue' = << >>
             /\ calls' = Append(calls, Call("sendBeacon", queue))]_vars

\* after start() and stop(), a lifecycle signal drained the queue into a
\* beacon
C39_Witness ==
    /\ ~isStarted
    /\ handlers = 1
    /\ lastOp.name = "unload"
    /\ lastOp.made = 1
    /\ calls[Len(calls)] = Call("sendBeacon", lastOp.result)
    /\ queue = << >>

\* after start() and stop(), an addEvent reached batchSize = 2 and sent
C39_WitnessThreshold ==
    /\ ~isStarted
    /\ handlers = 1
    /\ batchSize = 2
    /\ lastOp.name = "addEvent"
    /\ lastOp.made = 1
    /\ calls[Len(calls)] = Call("send", lastOp.result)
    /\ queue = << >>

\* a pagehide or beforeunload reaches the listeners of the initialized SDK,
\* the core tracker's among them: its app_close is the record nextId
C40_Signal ==
    /\ lastOp'.name = "pagehide"
    /\ isInitialized
    /\ "core" \in Range(listeners)

\* the record nextId is in the batch of a sendBeacon call of this step
C40_InBeacon ==
    \E i \in (Len(calls) + 1) .. Len(calls') :
        calls'[i].op = "sendBeacon" /\ nextId \in Range(calls'[i].batch)

\* C40: on a page-hide signal after init() and any number of setTrackLevel
\* calls, the app_close the core tracker tracks is in the queue when the
\* scheduler's handleUnload drains it: it is in the batch of that signal's
\* sendBeacon call and not left in the queue.
C40_AppCloseInBeacon ==
    [][C40_Signal => (C40_InBeacon /\ nextId \notin Range(queue'))]_vars

\* what does hold: while the core tracker's listener is ahead of the
\* scheduler's (no setTrackLevel since init()) and app_close does not bring the
\* queue to batchSize, app_close is in the signal's beacon batch; in every
\* case it is handed to addEvent
C40_CoreFirstBelowThreshold ==
    [][C40_Signal =>
          /\ nextId' = nextId + 1
          /\ (listeners = << "core", "scheduler" >> /\ Len(queue) + 1 < batchSize)
                => (C40_InBeacon /\ queue' = << >>)
          /\ listeners = << "scheduler", "core" >>
                => (~C40_InBeacon /\ (queue' = << nextId >> \/ batchSize = 1))]_vars

\* after a setTrackLevel the scheduler's listener ran first: the signal's
\* beacon went out without app_close, which is left alone in the queue
C40_LeftInQueue ==
    /\ lastOp.name = "pagehide"
    /\ listeners = << "scheduler", "core" >>
    /\ lastOp.made = 1
    /\ calls[Len(calls)].op = "sendBeacon"
    /\ nextId - 1 \notin Range(calls[Len(calls)].batch)
    /\ queue = << nextId - 1 >>

\* no setTrackLevel since init(): app_close brought the queue to batchSize and
\* went out through transport.send, the scheduler's handleUnload found the
\* queue empty and made no sendBeacon call
C40_SentByFetch ==
    /\ lastOp.name = "pagehide"
    /\ listeners = << "core", "scheduler" >>
    /\ lastOp.made = 1
    /\ calls[Len(calls)].op = "send"
    /\ nextId - 1 \in Range(calls[Len(calls)].batch)

\* no setTrackLevel since init(): app_close went out in the beacon
C40_InBeaconAfterInit ==
    /\ lastOp.name = "pagehide"
    /\ listeners = << "core", "scheduler" >>
    /\ lastOp.made = 1
    /\ calls[Len(calls)].op = "sendBeacon"
    /\ nextId - 1 \in Range(calls[Len(calls)].batch)
    /\ queue = << >>

====
